---- MODULE Spec2Model ----
(***************************************************************************)
(* A model of the mbox-to-pdf conversion pipeline (src/src/mbox_converter.py): *)
(* mail parsing, de-duplication, date grouping, attachment rendering, the  *)
(* PDF steps and the orchestrator convert_mbox_to_pdfs.                    *)
(*                                                                         *)
(* Strings the code builds, compares or measures (group keys, file names,  *)
(* MIME types, subjects) are sequences of one-character strings; datetimes *)
(* are records of their wall-clock fields and their UTC offset, compared   *)
(* the way Python compares them.                                           *)
(***************************************************************************)
EXTENDS Integers, Sequences, FiniteSets, TLC

VARIABLES
    mbox_paths,         \* the list of mailbox files handed to the pipeline
    grouping_strategy,  \* the strategy string
    progress_callback,  \* whether a progress callback is handed to the pipeline
    emails,             \* the de-duplicated, sorted list of Email records
    groups,             \* the ordered mapping key -> bucket, as a sequence of pairs
    pc,                 \* the position of the running call
    raised,             \* the exception that left the call, or NoException
    date,               \* _get_group_key: the datetime argument
    key,                \* _get_group_key: the returned key
    attachment,         \* render_attachment: the Attachment object it is given
    html_content,       \* render_attachment: the HTML returned; generate_pdf: the HTML given
    input_pdf,          \* add_continuation_headers: the path of the PDF to stamp
    output_path,        \* generate_pdf, add_continuation_headers: the path to write
    image_temp_dir,     \* generate_pdf: the directory for image files, or None
    subject,            \* add_continuation_headers: the subject argument
    files,              \* the file system: path -> directory or file
    total_groups,       \* convert_mbox_to_pdfs: len(groups)
    group_i,                  \* convert_mbox_to_pdfs: the index of the group at hand
    email_j,                  \* convert_mbox_to_pdfs: the index of the email at hand
    email_pdfs,         \* convert_mbox_to_pdfs: the per-email PDFs of the group
    errors,             \* convert_mbox_to_pdfs: the error strings
    attachment_errors,  \* convert_mbox_to_pdfs: the attachment-error records
    created_files,      \* convert_mbox_to_pdfs: the group PDFs written
    progress,           \* the calls the progress callback has received
    result,             \* convert_mbox_to_pdfs: the ConversionResult returned
    original_exception, \* classify_attachment_error: the exception it is given
    classification,     \* classify_attachment_error: the category returned
    mime_message,       \* _extract_body_and_attachments: the message it is given
    body_text,          \* _extract_body_and_attachments: the text body returned
    body_html,          \* _extract_body_and_attachments: the HTML body returned
    attachment_list,    \* _extract_body_and_attachments: the attachments returned
    current_step,       \* MboxToPdfApp: the step of the wizard
    takeout_folder,     \* MboxToPdfApp: the folder chosen in step 1, or None
    mbox_files,         \* MboxToPdfApp: the mapping path -> selected
    output_folder,      \* MboxToPdfApp: the folder chosen in step 4, or None
    conversion_result,  \* MboxToPdfApp: the result of the last conversion, or None
    next_button,        \* MboxToPdfApp: the state of the Next button on display
    main_frame,         \* MboxToPdfApp: the screen the main frame shows
    threads,            \* the background threads running run_conversion
    after_queue         \* the callbacks the threads handed to root.after

vars == <<mbox_paths, grouping_strategy, progress_callback, emails, groups, pc, raised,
          date, key, attachment, html_content, input_pdf, output_path,
          image_temp_dir, subject, files, total_groups, group_i, email_j, email_pdfs, errors,
          attachment_errors, created_files, progress, result,
          original_exception, classification, mime_message, body_text, body_html,
          attachment_list, current_step, takeout_folder, mbox_files, output_folder,
          conversion_result, next_button, main_frame, threads, after_queue>>

\* The locals of convert_mbox_to_pdfs and what it leaves behind, which the
\* calls of the single functions leave alone.
runVars == <<total_groups, group_i, email_j, email_pdfs, errors, attachment_errors,
             created_files, progress, result>>

\* The arguments and results of the single PDF and rendering functions.
callVars == <<attachment, html_content, input_pdf, output_path, image_temp_dir, subject>>

NoException == "None"

\* ConversionResult(success, pdfs_created, emails_processed, errors,
\*                  attachment_errors, created_files)
ConversionResult(success, pdfs_created, emails_processed, errs, att_errs, created) ==
    [success |-> success, pdfs_created |-> pdfs_created,
     emails_processed |-> emails_processed, errors |-> errs,
     attachment_errors |-> att_errs, created_files |-> created]

\* No call of convert_mbox_to_pdfs is under way and none has returned.
NoResult == <<>>

RunIdle ==
    /\ total_groups = 0
    /\ group_i = 0
    /\ email_j = 0
    /\ email_pdfs = <<>>
    /\ errors = <<>>
    /\ attachment_errors = <<>>
    /\ created_files = <<>>
    /\ progress = <<>>
    /\ result = NoResult

\* None, for an argument no function has been given.
NoAttachment == <<>>

NoHtml == <<>>

NoPath == <<>>

\* The empty file system.
NoFiles == <<>>

\* No call of a rendering or PDF function is under way.
CallIdle ==
    /\ attachment = NoAttachment
    /\ html_content = NoHtml
    /\ input_pdf = NoPath
    /\ output_path = NoPath
    /\ image_temp_dir = NoPath
    /\ subject = <<>>
    /\ files = NoFiles

\* The argument and the result of classify_attachment_error.
classifyVars == <<original_exception, classification>>

\* The argument and the results of _extract_body_and_attachments.
extractVars == <<mime_message, body_text, body_html, attachment_list>>

\* The attributes of the wizard, its widgets and its background threads.
wizardVars ==
    <<current_step, takeout_folder, mbox_files, output_folder, conversion_result,
      next_button, main_frame, threads, after_queue>>

\* What the conversion pipeline and its functions leave alone.
sideVars == <<classifyVars, extractVars, wizardVars>>

\* No classification and no extraction is under way.
ClassifyIdle ==
    /\ original_exception = <<>>
    /\ classification = <<>>

ExtractIdle ==
    /\ mime_message = <<>>
    /\ body_text = <<>>
    /\ body_html = <<>>
    /\ attachment_list = <<>>

\* No wizard window is open.
WizardIdle ==
    /\ current_step = 0
    /\ takeout_folder = <<>>
    /\ mbox_files = <<>>
    /\ output_folder = <<>>
    /\ conversion_result = <<>>
    /\ next_button = "none"
    /\ main_frame = "none"
    /\ threads = <<>>
    /\ after_queue = <<>>

SideIdle == ClassifyIdle /\ ExtractIdle /\ WizardIdle

(***************************************************************************)
(* Bounds of the model.                                                    *)
(***************************************************************************)
MaxYear == 2008
MaxFiles == 2
MaxMessages == 3
MaxEmails == 3
MaxRunFiles == 2
MaxRunMessages == 2
MaxPages == 2
MaxUris == 2
MaxStampPages == 3
MaxGroups == 15
MaxParseMessages == 2
MaxParts == 3

(***************************************************************************)
(* Characters and strings.                                                 *)
(***************************************************************************)
\* The characters that occur in group keys, in code-point order.
Alphabet ==
    << "-", "0", "1", "2", "3", "4", "5", "6", "7", "8", "9",
       "A", "D", "F", "J", "M", "N", "O", "Q", "S",
       "a", "b", "c", "e", "g", "h", "i", "l", "m", "n", "o", "p",
       "r", "s", "t", "u", "v", "y" >>

\* The rank of a character: order-isomorphic to its code point.
Ord(c) == CHOOSE i \in 1..Len(Alphabet) : Alphabet[i] = c

\* Python's str comparison s < t: lexicographic by code point.
RECURSIVE StrLess(_, _)
StrLess(s, t) ==
    IF t = <<>> THEN FALSE
    ELSE IF s = <<>> THEN TRUE
    ELSE IF Ord(Head(s)) # Ord(Head(t)) THEN Ord(Head(s)) < Ord(Head(t))
    ELSE StrLess(Tail(s), Tail(t))

DigitChar(n) == Alphabet[n + 2]

\* str(n) / f"{n}" for a non-negative integer: decimal, no padding.
RECURSIVE IntStr(_)
IntStr(n) ==
    IF n < 10 THEN <<DigitChar(n)>>
    ELSE IntStr(n \div 10) \o <<DigitChar(n % 10)>>

\* strftime("%m"): the month as two digits, zero-padded.
Pad2(n) == <<DigitChar(n \div 10), DigitChar(n % 10)>>

\* strftime("%B") in the C locale.
MonthName(m) ==
    CASE m = 1  -> <<"J","a","n","u","a","r","y">>
      [] m = 2  -> <<"F","e","b","r","u","a","r","y">>
      [] m = 3  -> <<"M","a","r","c","h">>
      [] m = 4  -> <<"A","p","r","i","l">>
      [] m = 5  -> <<"M","a","y">>
      [] m = 6  -> <<"J","u","n","e">>
      [] m = 7  -> <<"J","u","l","y">>
      [] m = 8  -> <<"A","u","g","u","s","t">>
      [] m = 9  -> <<"S","e","p","t","e","m","b","e","r">>
      [] m = 10 -> <<"O","c","t","o","b","e","r">>
      [] m = 11 -> <<"N","o","v","e","m","b","e","r">>
      [] m = 12 -> <<"D","e","c","e","m","b","e","r">>

\* f"{n:04d}": four digits, zero-padded (n < 10000).
Pad4(n) ==
    <<DigitChar(n \div 1000), DigitChar((n \div 100) % 10),
      DigitChar((n \div 10) % 10), DigitChar(n % 10)>>

UpperCase ==
    << "A", "B", "C", "D", "E", "F", "G", "H", "I", "J", "K", "L", "M",
       "N", "O", "P", "Q", "R", "S", "T", "U", "V", "W", "X", "Y", "Z" >>

LowerCase ==
    << "a", "b", "c", "d", "e", "f", "g", "h", "i", "j", "k", "l", "m",
       "n", "o", "p", "q", "r", "s", "t", "u", "v", "w", "x", "y", "z" >>

\* str.lower(): the upper-case letters become their lower-case ones.
LowerChar(c) ==
    IF \E i \in 1..Len(UpperCase) : UpperCase[i] = c
    THEN LowerCase[CHOOSE i \in 1..Len(UpperCase) : UpperCase[i] = c]
    ELSE c

Lower(s) == [i \in 1..Len(s) |-> LowerChar(s[i])]

\* s.startswith(prefix), s.endswith(suffix)
StartsWith(s, prefix) ==
    Len(prefix) <= Len(s) /\ SubSeq(s, 1, Len(prefix)) = prefix

EndsWith(s, suffix) ==
    Len(suffix) <= Len(s) /\ SubSeq(s, Len(s) - Len(suffix) + 1, Len(s)) = suffix

(***************************************************************************)
(* Datetimes.  aware = FALSE is the naive datetime parsedate_to_datetime   *)
(* returns for a "-0000" zone; tz is the UTC offset in hours.              *)
(***************************************************************************)
DateTime(y, m, d, h, tz, aware) ==
    [year |-> y, month |-> m, day |-> d, hour |-> h, tz |-> tz, aware |-> aware]

IsLeap(y) == (y % 4 = 0) /\ ((y % 100 # 0) \/ (y % 400 = 0))

DaysBeforeYear(y) ==
    (y - 1) * 365 + ((y - 1) \div 4) - ((y - 1) \div 100) + ((y - 1) \div 400)

DaysInMonth(y, m) ==
    IF m = 2 THEN (IF IsLeap(y) THEN 29 ELSE 28)
    ELSE IF m \in {4, 6, 9, 11} THEN 30 ELSE 31

RECURSIVE DaysBeforeMonth(_, _)
DaysBeforeMonth(y, m) ==
    IF m = 1 THEN 0 ELSE DaysBeforeMonth(y, m - 1) + DaysInMonth(y, m - 1)

\* The hour count datetime comparison rests on: the wall clock minus the
\* offset for an aware datetime, the wall clock itself for a naive one.
Instant(dt) ==
    (DaysBeforeYear(dt.year) + DaysBeforeMonth(dt.year, dt.month) + dt.day) * 24
        + dt.hour - (IF dt.aware THEN dt.tz ELSE 0)

(***************************************************************************)
(* _get_group_key                                                          *)
(***************************************************************************)
\* The quarter taken from the month, not from the month before it.
QuarterOffByOne(month) == (month \div 3) + 1

Quarter(month) == ((month - 1) \div 3) + 1

GetGroupKey(dt, strategy) ==
    IF strategy = "month"
    THEN IntStr(dt.year) \o <<"-">> \o Pad2(dt.month) \o <<"-">> \o MonthName(dt.month)
    ELSE IF strategy = "quarter"
    THEN IntStr(dt.year) \o <<"-", "Q">> \o IntStr(Quarter(dt.month))
    ELSE IntStr(dt.year)

ValidStrategies == {"month", "quarter", "year"}

Strategies == ValidStrategies \cup {"invalid"}

Years == 2007..MaxYear

\* The datetimes _get_group_key is applied to.
KeyDates ==
    { DateTime(y, m, d, h, tz, TRUE) :
        y \in Years, m \in 1..12, d \in {1, 4, 28}, h \in {0, 23}, tz \in {-8, 0, 9} }

NoKey == <<>>

KeyInit ==
    /\ SideIdle
    /\ RunIdle
    /\ CallIdle
    /\ progress_callback = FALSE
    /\ mbox_paths = <<>>
    /\ emails = <<>>
    /\ groups = <<>>
    /\ raised = NoException
    /\ date \in KeyDates
    /\ grouping_strategy \in ValidStrategies
    /\ key = NoKey
    /\ pc = "call"

\* One call of _get_group_key(date, strategy).
GetGroupKeyCall ==
    /\ pc = "call"
    /\ UNCHANGED sideVars
    /\ key' = GetGroupKey(date, grouping_strategy)
    /\ pc' = "returned"
    /\ UNCHANGED <<mbox_paths, grouping_strategy, emails, groups, raised, date>>
    /\ UNCHANGED runVars
    /\ UNCHANGED callVars
    /\ UNCHANGED <<progress_callback, files>>

KeyNext == GetGroupKeyCall

SpecKey == KeyInit /\ [][KeyNext]_vars

(***************************************************************************)
(* Sorting by date: list.sort(key=lambda e: e.date).  The sort is stable;  *)
(* comparing a naive datetime with an aware one raises TypeError, which    *)
(* any sort of a list holding both kinds must do.                          *)
(***************************************************************************)
SeqsUpTo(S, n) == UNION { [1..k -> S] : k \in 0..n }

Returned(v) == [exc |-> NoException, value |-> v]

Raise(e) == [exc |-> e, value |-> <<>>]

MixedAwareness(es) ==
    \E i, j \in 1..Len(es) : es[i].date.aware /\ ~es[j].date.aware

\* e placed behind every element that is not later than it.
RECURSIVE InsertByDate(_, _)
InsertByDate(sorted, e) ==
    IF sorted = <<>> THEN <<e>>
    ELSE IF Instant(e.date) < Instant(Head(sorted).date) THEN <<e>> \o sorted
    ELSE <<Head(sorted)>> \o InsertByDate(Tail(sorted), e)

RECURSIVE StableSortByDate(_)
StableSortByDate(es) ==
    IF es = <<>> THEN <<>>
    ELSE InsertByDate(StableSortByDate(SubSeq(es, 1, Len(es) - 1)), es[Len(es)])

\* A sort by the wall clock, the offset ignored.
WallClock(dt) ==
    (DaysBeforeYear(dt.year) + DaysBeforeMonth(dt.year, dt.month) + dt.day) * 24 + dt.hour

RECURSIVE InsertByWallClock(_, _)
InsertByWallClock(sorted, e) ==
    IF sorted = <<>> THEN <<e>>
    ELSE IF WallClock(e.date) < WallClock(Head(sorted).date) THEN <<e>> \o sorted
    ELSE <<Head(sorted)>> \o InsertByWallClock(Tail(sorted), e)

RECURSIVE SortByWallClock(_)
SortByWallClock(es) ==
    IF es = <<>> THEN <<>>
    ELSE InsertByWallClock(SortByWallClock(SubSeq(es, 1, Len(es) - 1)), es[Len(es)])

SortByDate(es) == StableSortByDate(es)

(***************************************************************************)
(* Attachments and render_attachment.  The bytes of an attachment are what *)
(* the renderer of its format makes of them: "content" (well formed, with  *)
(* something to show), "nothing" (well formed, but without a row, a text   *)
(* or a sheet) or "corrupt" (the library that reads the format raises).    *)
(* An Optional field is a sequence of no value (None) or one.              *)
(***************************************************************************)
\* A bytes object: what a renderer makes of it, and its length.
Bytes(kind, len) == [kind |-> kind, len |-> len]

Attachment(filename, mime_type, size_bytes, raw_content) ==
    [filename |-> filename, mime_type |-> mime_type, size_bytes |-> size_bytes,
     raw_content |-> raw_content,
     rendered_content |-> <<>>, content_type |-> <<>>, error |-> <<>>]

\* The string literals render_attachment compares with.
MimeTextCsv ==
    <<"t","e","x","t","/","c","s","v">>

MimeTextHtml ==
    <<"t","e","x","t","/","h","t","m","l">>

MimeDocx ==
    <<"a","p","p","l","i","c","a","t","i","o","n","/","v","n","d",".","o",
      "p","e","n","x","m","l","f","o","r","m","a","t","s","-","o","f","f",
      "i","c","e","d","o","c","u","m","e","n","t",".","w","o","r","d","p",
      "r","o","c","e","s","s","i","n","g","m","l",".","d","o","c","u","m",
      "e","n","t">>

MimeXlsx ==
    <<"a","p","p","l","i","c","a","t","i","o","n","/","v","n","d",".","o",
      "p","e","n","x","m","l","f","o","r","m","a","t","s","-","o","f","f",
      "i","c","e","d","o","c","u","m","e","n","t",".","s","p","r","e","a",
      "d","s","h","e","e","t","m","l",".","s","h","e","e","t">>

TextSlash ==
    <<"t","e","x","t","/">>

ImageSlash ==
    <<"i","m","a","g","e","/">>

DotCsv ==
    <<".","c","s","v">>

DotHtml ==
    <<".","h","t","m","l">>

DotHtm ==
    <<".","h","t","m">>

DotDocx ==
    <<".","d","o","c","x">>

DotXlsx ==
    <<".","x","l","s","x">>

\* The HTML a renderer returns: the class of its element and what it shows
\* of the attachment.  The element of an image holds the data URI
\* data:<mime_type>;base64,<bytes>.
Html(class, a) ==
    [class |-> class, filename |-> a.filename, mime_type |-> a.mime_type,
     size_bytes |-> a.size_bytes]

\* _render_reference: the reference card.
RenderReference(a) == Html("attachment-reference", a)

\* _render_csv: no rows give the reference card.
RenderCsv(a) ==
    IF a.raw_content.kind = "corrupt" THEN Raise("Error")
    ELSE IF a.raw_content.kind = "nothing" THEN Returned(RenderReference(a))
    ELSE Returned(Html("attachment-csv", a))

\* _render_html: decoding falls back to latin-1, which takes any bytes.
RenderHtml(a) == Returned(Html("attachment-html", a))

\* _render_docx: no text gives the reference card.
RenderDocx(a) ==
    IF a.raw_content.kind = "corrupt" THEN Raise("BadZipFile")
    ELSE IF a.raw_content.kind = "nothing" THEN Returned(RenderReference(a))
    ELSE Returned(Html("attachment-docx", a))

\* _render_xlsx: no sheet gives the reference card.
RenderXlsx(a) ==
    IF a.raw_content.kind = "corrupt" THEN Raise("BadZipFile")
    ELSE IF a.raw_content.kind = "nothing" THEN Returned(RenderReference(a))
    ELSE Returned(Html("attachment-xlsx", a))

\* _render_text: decoding falls back to latin-1, which takes any bytes.
RenderText(a) == Returned(Html("attachment-text", a))

\* _render_image: base64 takes any bytes.
RenderImage(a) == Returned(Html("attachment-image", a))

\* The chain of tests with the text test ahead of the others.
DispatchTextFirst(mime_type, filename) ==
    IF StartsWith(mime_type, TextSlash) THEN "text"
    ELSE IF mime_type = MimeTextCsv \/ EndsWith(Lower(filename), DotCsv) THEN "table"
    ELSE IF \/ mime_type = MimeTextHtml
            \/ EndsWith(Lower(filename), DotHtml)
            \/ EndsWith(Lower(filename), DotHtm) THEN "html"
    ELSE IF mime_type = MimeDocx \/ EndsWith(Lower(filename), DotDocx) THEN "docx"
    ELSE IF mime_type = MimeXlsx \/ EndsWith(Lower(filename), DotXlsx) THEN "xlsx"
    ELSE IF StartsWith(mime_type, ImageSlash) THEN "image"
    ELSE "reference"

\* The if/elif chain of render_attachment: the branch taken, named by the
\* content_type it assigns.  mime_type is the lower-cased MIME type.
Dispatch(mime_type, filename) ==
    IF mime_type = MimeTextCsv \/ EndsWith(Lower(filename), DotCsv) THEN "table"
    ELSE IF \/ mime_type = MimeTextHtml
            \/ EndsWith(Lower(filename), DotHtml)
            \/ EndsWith(Lower(filename), DotHtm) THEN "html"
    ELSE IF mime_type = MimeDocx \/ EndsWith(Lower(filename), DotDocx) THEN "docx"
    ELSE IF mime_type = MimeXlsx \/ EndsWith(Lower(filename), DotXlsx) THEN "xlsx"
    ELSE IF StartsWith(mime_type, TextSlash) THEN "text"
    ELSE IF StartsWith(mime_type, ImageSlash) THEN "image"
    ELSE "reference"

\* The renderer a branch calls.
Renderer(tag, a) ==
    CASE tag = "table" -> RenderCsv(a)
      [] tag = "html"  -> RenderHtml(a)
      [] tag = "docx"  -> RenderDocx(a)
      [] tag = "xlsx"  -> RenderXlsx(a)
      [] tag = "text"  -> RenderText(a)
      [] tag = "image" -> RenderImage(a)
      [] OTHER         -> Returned(RenderReference(a))

\* The handler records nothing and lets the exception go.
RendererFailurePropagates(a, e) ==
    [exc |-> e, value |-> <<>>, attachment |-> a]

\* except Exception as e: the error is recorded and the reference card shown.
OnRendererFailure(a, e) ==
    LET failed == [a EXCEPT !.error = <<e>>]
        card == RenderReference(failed)
    IN  [exc |-> NoException, value |-> card,
         attachment |-> [failed EXCEPT !.content_type = <<"reference">>,
                                       !.rendered_content = <<card>>]]

\* render_attachment(attachment): the exception that leaves it (none), the
\* HTML it returns and the attachment object as the call leaves it.
RenderAttachment(a) ==
    LET tag == Dispatch(Lower(a.mime_type), a.filename)
        r == Renderer(tag, a)
    IN  IF r.exc # NoException THEN OnRendererFailure(a, r.exc)
        ELSE [exc |-> NoException, value |-> r.value,
              attachment |-> [a EXCEPT !.content_type = <<tag>>,
                                       !.rendered_content = <<r.value>>]]

(***************************************************************************)
(* parse_mbox and _parse_message.  A mailbox file is a record: whether the *)
(* path exists, and its messages in file order.  A message carries its     *)
(* Message-ID and Date headers as sequences of zero or one value (a header *)
(* may be absent), its Subject and, when it is multipart, its leaf parts   *)
(* in walk order.  A leaf part carries its content type, whether its       *)
(* Content-Disposition holds 'attachment', its filename (it may have none) *)
(* and its decoded payload (None for a part that holds a message).         *)
(***************************************************************************)
Part(content_type, disposition, filename, payload) ==
    [content_type |-> content_type, disposition |-> disposition,
     filename |-> filename, payload |-> payload]

UnnamedAttachment ==
    <<"u","n","n","a","m","e","d","_","a","t","t","a","c","h","m","e","n","t">>

\* _parse_attachment: <<attachment>>, or <<>> for None.
ParseAttachment(part) ==
    LET filename == IF part.filename # <<>> THEN part.filename[1]
                    ELSE UnnamedAttachment
    IN  IF part.payload = <<>> THEN <<>>
        ELSE <<Attachment(filename, part.content_type, part.payload[1].len,
                          part.payload[1])>>

\* The attachments _extract_body_and_attachments collects from the parts:
\* those with an attachment disposition or a filename.
RECURSIVE ExtractAttachments(_)
ExtractAttachments(parts) ==
    IF parts = <<>> THEN <<>>
    ELSE (IF Head(parts).disposition = "attachment" \/ Head(parts).filename # <<>>
          THEN ParseAttachment(Head(parts))
          ELSE <<>>) \o ExtractAttachments(Tail(parts))

\* message.get(name, default)
Get(header, default) == IF header = <<>> THEN default ELSE header[1]

\* The value message.get gives for a header that holds bytes outside ASCII:
\* an email.header.Header object, not a str.
HeaderObject == [charset |-> "unknown-8bit"]

\* email.utils.parsedate_to_datetime on the value of a Date header.  A text
\* is the sequence of the datetimes it denotes: one, or none for the empty
\* string and for any text that is no RFC 2822 date, which give ValueError.
\* A Header object has no split method: AttributeError.
ParsedateToDatetime(date_str) ==
    IF date_str = <<HeaderObject>> THEN Raise("AttributeError")
    ELSE IF date_str = <<>> THEN Raise("ValueError")
    ELSE Returned(date_str[1])

Email(message_id, dt, subj, attachments) ==
    [message_id |-> message_id, date |-> dt, subject |-> subj,
     attachments |-> attachments]

\* _parse_message: <<email>>, or <<>> for the None of a message that is
\* skipped; an exception other than ValueError and TypeError leaves it.
ParseMessage(message) ==
    LET message_id == Get(message.message_id, "")
        parsed == ParsedateToDatetime(Get(message.date, <<>>))
    IN  IF parsed.exc \in {"ValueError", "TypeError"} THEN Returned(<<>>)
        ELSE IF parsed.exc # NoException THEN Raise(parsed.exc)
        ELSE Returned(<<Email(message_id, parsed.value, message.subject,
                              ExtractAttachments(message.parts))>>)

\* for message in mbox: the emails appended, or the first exception.
RECURSIVE ParseMessages(_)
ParseMessages(messages) ==
    IF messages = <<>> THEN Returned(<<>>)
    ELSE LET first == ParseMessage(Head(messages))
             rest == ParseMessages(Tail(messages))
         IN  IF first.exc # NoException THEN first
             ELSE IF rest.exc # NoException THEN rest
             ELSE Returned(first.value \o rest.value)

ParseMbox(mbox_path) ==
    IF ~mbox_path.exists THEN Raise("FileNotFoundError")
    ELSE LET parsed == ParseMessages(mbox_path.messages)
         IN  IF parsed.exc # NoException THEN parsed
             ELSE IF MixedAwareness(parsed.value) THEN Raise("TypeError")
             ELSE Returned(SortByDate(parsed.value))

(***************************************************************************)
(* merge_and_deduplicate                                                   *)
(***************************************************************************)
SeenMessageIds(es) == { es[i].message_id : i \in 1..Len(es) }

KeepAll(unique_emails, es) == unique_emails \o es

\* A later occurrence takes the place of the one kept.
RECURSIVE KeepLatest(_, _)
KeepLatest(unique_emails, es) ==
    IF es = <<>> THEN unique_emails
    ELSE IF Head(es).message_id \notin SeenMessageIds(unique_emails)
         THEN KeepLatest(Append(unique_emails, Head(es)), Tail(es))
         ELSE KeepLatest(
                [i \in 1..Len(unique_emails) |->
                    IF unique_emails[i].message_id = Head(es).message_id
                    THEN Head(es) ELSE unique_emails[i]],
                Tail(es))

\* The inner loop over one file's emails.
RECURSIVE KeepUnseen(_, _)
KeepUnseen(unique_emails, es) ==
    IF es = <<>> THEN unique_emails
    ELSE IF Head(es).message_id \notin SeenMessageIds(unique_emails)
         THEN KeepUnseen(Append(unique_emails, Head(es)), Tail(es))
         ELSE KeepUnseen(unique_emails, Tail(es))

\* The identifiers seen are forgotten from one file to the next.
RECURSIVE MergeLoopSeenPerFile(_, _)
MergeLoopSeenPerFile(unique_emails, paths) ==
    IF paths = <<>> THEN Returned(unique_emails)
    ELSE LET parsed == ParseMbox(Head(paths))
         IN  IF parsed.exc # NoException THEN parsed
             ELSE MergeLoopSeenPerFile(
                    unique_emails \o KeepUnseen(<<>>, parsed.value), Tail(paths))

\* The outer loop over the paths: the first parse_mbox that raises ends it.
RECURSIVE MergeLoop(_, _)
MergeLoop(unique_emails, paths) ==
    IF paths = <<>> THEN Returned(unique_emails)
    ELSE LET parsed == ParseMbox(Head(paths))
         IN  IF parsed.exc # NoException THEN parsed
             ELSE MergeLoop(KeepUnseen(unique_emails, parsed.value), Tail(paths))

MergeAndDeduplicate(paths) ==
    LET merged == MergeLoop(<<>>, paths)
    IN  IF merged.exc # NoException THEN merged
        ELSE IF MixedAwareness(merged.value) THEN Raise("TypeError")
        ELSE Returned(SortByDate(merged.value))


(***************************************************************************)
(* The mailboxes the pipeline is run on.                                   *)
(***************************************************************************)
Message(message_id, date_hdr, subj, parts) ==
    [message_id |-> message_id, date |-> date_hdr, subject |-> subj,
     parts |-> parts]

\* MIME types, file names and subjects of the inputs.
MimeTextPlain ==
    <<"t","e","x","t","/","p","l","a","i","n">>

MimeImagePng ==
    <<"i","m","a","g","e","/","p","n","g">>

MimeAudioMpeg ==
    <<"a","u","d","i","o","/","m","p","e","g">>

MimeMessageRfc822 ==
    <<"m","e","s","s","a","g","e","/","r","f","c","8","2","2">>

MimeOctetStream ==
    <<"a","p","p","l","i","c","a","t","i","o","n","/","o","c","t","e","t",
      "-","s","t","r","e","a","m">>

MimeTextCsvUpper ==
    <<"T","E","X","T","/","C","S","V">>

MimeImagePngMixed ==
    <<"I","m","a","g","e","/","P","N","G">>

NameDataCsv ==
    <<"d","a","t","a",".","c","s","v">>

NameDataCsvUpper ==
    <<"D","A","T","A",".","C","S","V">>

NamePageHtml ==
    <<"p","a","g","e",".","h","t","m","l">>

NameIndexHtm ==
    <<"i","n","d","e","x",".","h","t","m">>

NameReportDocx ==
    <<"r","e","p","o","r","t",".","d","o","c","x">>

NameSheetXlsx ==
    <<"s","h","e","e","t",".","x","l","s","x">>

NameNotesTxt ==
    <<"n","o","t","e","s",".","t","x","t">>

NameTimelinePng ==
    <<"t","i","m","e","l","i","n","e",".","p","n","g">>

NameMeetingMp3 ==
    <<"m","e","e","t","i","n","g",".","m","p","3">>

SubjectOne ==
    <<"o","n","e">>

SubjectOneEdited ==
    <<"o","n","e",","," ","e","d","i","t","e","d">>

SubjectNoId ==
    <<"n","o"," ","i","d">>

SubjectNoIdEither ==
    <<"n","o"," ","i","d"," ","e","i","t","h","e","r">>

SubjectBadDate ==
    <<"b","a","d"," ","d","a","t","e">>

SubjectZone ==
    <<"z","o","n","e"," ","-","0","0","0","0">>

Jan04     == DateTime(2008, 1, 4, 10, 0, TRUE)
Jan04East == DateTime(2008, 1, 4, 19, 9, TRUE)    \* the same instant as Jan04
Jan31West == DateTime(2008, 1, 31, 23, -8, TRUE)  \* 2008-02-01 07:00 UTC
Feb01East == DateTime(2008, 2, 1, 1, 9, TRUE)     \* 2008-01-31 16:00 UTC
Dec31West == DateTime(2007, 12, 31, 20, -8, TRUE) \* 2008-01-01 04:00 UTC
Apr15     == DateTime(2008, 4, 15, 12, 0, TRUE)
Jan05Naive == DateTime(2008, 1, 5, 9, 0, FALSE)   \* "... -0000"

\* A Word document the library cannot open, and a sound file.
PartsBrokenDocxAndSound ==
    << Part(MimeDocx, "attachment", <<NameReportDocx>>, <<Bytes("corrupt", 2048)>>),
       Part(MimeAudioMpeg, "attachment", <<NameMeetingMp3>>,
            <<Bytes("content", 1024000)>>) >>

\* A text body, which is no attachment, and an inline picture with a name.
PartsBodyAndPicture ==
    << Part(MimeTextPlain, "", <<>>, <<Bytes("content", 120)>>),
       Part(MimeImagePng, "inline", <<NameTimelinePng>>, <<Bytes("content", 4096)>>) >>

\* An attached message, whose payload is None, and a CSV file without rows.
PartsMessageAndEmptyCsv ==
    << Part(MimeMessageRfc822, "attachment", <<>>, <<>>),
       Part(MimeTextCsv, "attachment", <<NameDataCsv>>, <<Bytes("nothing", 0)>>) >>

\* The messages a mailbox file may hold.
MessagePool ==
    { Message(<<"<a>">>, <<<<Jan04>>>>, SubjectOne, PartsBrokenDocxAndSound),
      Message(<<"<a>">>, <<<<Feb01East>>>>, SubjectOneEdited, <<>>),
      Message(<<>>, <<<<Jan31West>>>>, SubjectNoId, PartsBodyAndPicture),
      Message(<<>>, <<<<Jan04East>>>>, SubjectNoIdEither, PartsMessageAndEmptyCsv),
      Message(<<"<b>">>, <<<<>>>>, SubjectBadDate, <<>>),
      Message(<<"<c>">>, <<<<Jan05Naive>>>>, SubjectZone, <<>>) }

MboxFile(messages) == [exists |-> TRUE, messages |-> messages]

MissingFile == [exists |-> FALSE, messages |-> <<>>]

\* The lists of at most f paths whose files hold at most n messages in all.
RECURSIVE PathLists(_, _, _)
PathLists(pool, f, n) ==
    IF f = 0 THEN {<<>>}
    ELSE {<<>>} \cup
         { <<MissingFile>> \o rest : rest \in PathLists(pool, f - 1, n) } \cup
         UNION { { <<MboxFile(ms)>> \o rest :
                     ms \in [1..k -> pool], rest \in PathLists(pool, f - 1, n - k) } :
                 k \in 0..n }

MergeInit ==
    /\ SideIdle
    /\ RunIdle
    /\ CallIdle
    /\ progress_callback = FALSE
    /\ mbox_paths \in PathLists(MessagePool, MaxFiles, MaxMessages)
    /\ grouping_strategy = "month"
    /\ emails = <<>>
    /\ groups = <<>>
    /\ raised = NoException
    /\ date = Jan04
    /\ key = NoKey
    /\ pc = "call"

\* One call of merge_and_deduplicate(mbox_paths).
MergeAndDeduplicateCall ==
    /\ pc = "call"
    /\ UNCHANGED sideVars
    /\ LET r == MergeAndDeduplicate(mbox_paths)
       IN  /\ raised' = r.exc
           /\ emails' = r.value
           /\ pc' = IF r.exc = NoException THEN "returned" ELSE "raised"
    /\ UNCHANGED <<mbox_paths, grouping_strategy, groups, date, key>>
    /\ UNCHANGED runVars
    /\ UNCHANGED callVars
    /\ UNCHANGED <<progress_callback, files>>

MergeNext == MergeAndDeduplicateCall

SpecMerge == MergeInit /\ [][MergeNext]_vars

(***************************************************************************)
(* group_emails_by_date.  The dict it builds is the sequence of its items, *)
(* [key, emails], in the dict's order.                                     *)
(***************************************************************************)
Keys(gs) == { gs[i].key : i \in 1..Len(gs) }

\* groups[key].append(email), after groups[key] = [] for a new key.
AddToGroup(gs, k, e) ==
    IF k \in Keys(gs)
    THEN [i \in 1..Len(gs) |->
            IF gs[i].key = k THEN [gs[i] EXCEPT !.emails = Append(@, e)] ELSE gs[i]]
    ELSE Append(gs, [key |-> k, emails |-> <<e>>])

RECURSIVE FillGroups(_, _, _)
FillGroups(gs, es, strategy) ==
    IF es = <<>> THEN gs
    ELSE FillGroups(AddToGroup(gs, GetGroupKey(Head(es).date, strategy), Head(es)),
                    Tail(es), strategy)

\* sorted(groups.items()): the items ordered by key (the keys are distinct).
RECURSIVE InsertByKey(_, _)
InsertByKey(sorted, g) ==
    IF sorted = <<>> THEN <<g>>
    ELSE IF StrLess(g.key, Head(sorted).key) THEN <<g>> \o sorted
    ELSE <<Head(sorted)>> \o InsertByKey(Tail(sorted), g)

RECURSIVE SortedItems(_)
SortedItems(gs) ==
    IF gs = <<>> THEN <<>>
    ELSE InsertByKey(SortedItems(SubSeq(gs, 1, Len(gs) - 1)), gs[Len(gs)])

GroupEmailsByDate(es, strategy) ==
    IF strategy \notin {"month", "quarter", "year"} THEN Raise("ValueError")
    ELSE IF es = <<>> THEN Returned(<<>>)
    ELSE LET filled == FillGroups(<<>>, es, strategy)
         IN  IF \E i \in 1..Len(filled) : MixedAwareness(filled[i].emails)
             THEN Raise("TypeError")
             ELSE Returned(SortedItems(
                    [i \in 1..Len(filled) |->
                        [filled[i] EXCEPT !.emails = SortByDate(@)]]))

\* The emails group_emails_by_date is applied to.
EmailPool ==
    { Email("<a>", Jan04, <<"o","n","e">>, <<>>),
      Email("<b>", Jan04East, <<"t","w","o">>, <<>>),
      Email("<c>", Jan31West, <<"t","h","r","e","e">>, <<>>),
      Email("<d>", Feb01East, <<"f","o","u","r">>, <<>>),
      Email("<e>", Dec31West, <<"f","i","v","e">>, <<>>),
      Email("<f>", Apr15, <<"s","i","x">>, <<>>),
      Email("<g>", Jan05Naive, SubjectZone, <<>>) }

GroupInit ==
    /\ SideIdle
    /\ RunIdle
    /\ CallIdle
    /\ progress_callback = FALSE
    /\ mbox_paths = <<>>
    /\ emails \in SeqsUpTo(EmailPool, MaxEmails)
    /\ grouping_strategy \in Strategies
    /\ groups = <<>>
    /\ raised = NoException
    /\ date = Jan04
    /\ key = NoKey
    /\ pc = "call"

\* One call of group_emails_by_date(emails, strategy).
GroupEmailsByDateCall ==
    /\ pc = "call"
    /\ UNCHANGED sideVars
    /\ LET r == GroupEmailsByDate(emails, grouping_strategy)
       IN  /\ raised' = r.exc
           /\ groups' = r.value
           /\ pc' = IF r.exc = NoException THEN "returned" ELSE "raised"
    /\ UNCHANGED <<mbox_paths, grouping_strategy, emails, date, key>>
    /\ UNCHANGED runVars
    /\ UNCHANGED callVars
    /\ UNCHANGED <<progress_callback, files>>

GroupNext == GroupEmailsByDateCall

SpecGroup == GroupInit /\ [][GroupNext]_vars

(***************************************************************************)
(* Files.  A path is the sequence of its components, each a string of      *)
(* characters; the file system maps every path that exists to a directory  *)
(* or a file.  A PDF file holds its pages and whether it was written to    *)
(* its end; a page holds the document it shows, its number in that         *)
(* document and the overlays merged onto it.                               *)
(***************************************************************************)
\* dir / name
Join(dir, name) == Append(dir, name)

Parent(path) == SubSeq(path, 1, Len(path) - 1)

Directory == [kind |-> "dir", pages |-> <<>>, complete |-> TRUE]

PdfFile(pages, complete) == [kind |-> "pdf", pages |-> pages, complete |-> complete]

ImageFile == [kind |-> "image", pages |-> <<>>, complete |-> TRUE]

Exists(fs, path) == path \in DOMAIN fs

IsDir(fs, path) == Exists(fs, path) /\ fs[path].kind = "dir"

\* The file system with file at path, whatever was there before.
WriteFile(fs, path, file) ==
    [p \in DOMAIN fs \cup {path} |-> IF p = path THEN file ELSE fs[p]]

\* path.mkdir(parents=True, exist_ok=True)
RECURSIVE Mkdir(_, _)
Mkdir(fs, path) ==
    IF path = <<>> \/ Exists(fs, path) THEN fs
    ELSE WriteFile(Mkdir(fs, Parent(path)), path, Directory)

\* The entry of the directory alone goes; what lies below it stays.
RemoveDirectoryOnly(fs, dir) ==
    [p \in { q \in DOMAIN fs : q # dir } |-> fs[p]]

\* shutil.rmtree(dir): the directory goes with all that lies below it.
RemoveTree(fs, dir) ==
    [p \in { q \in DOMAIN fs : ~StartsWith(q, dir) } |-> fs[p]]

Page(source, number) == [source |-> source, number |-> number, overlays |-> <<>>]

(***************************************************************************)
(* render_email_to_html.  The HTML of an email is its subject, which       *)
(* stands for its header and body, the HTML of its attachments and, in     *)
(* document order, the URIs it embeds.                                     *)
(***************************************************************************)
\* data:<mime>;<param>;...,<data>; decodes says whether <data> is base64
\* that b64decode takes.
DataUri(mime, params, decodes) ==
    [scheme |-> "data", mime |-> mime, params |-> params, decodes |-> decodes,
     path |-> NoPath]

\* file://<path>
FileUri(path) ==
    [scheme |-> "file", mime |-> <<>>, params |-> <<>>, decodes |-> TRUE,
     path |-> path]

Base64 == <<"b","a","s","e","6","4">>

\* The URIs the <img> elements of the rendered attachments hold.
RECURSIVE ImageUris(_)
ImageUris(parts) ==
    IF parts = <<>> THEN <<>>
    ELSE (IF Head(parts).class = "attachment-image"
          THEN <<DataUri(Head(parts).mime_type, <<Base64>>, TRUE)>>
          ELSE <<>>) \o ImageUris(Tail(parts))

EmailHtml(subj, parts, uris) == [subject |-> subj, parts |-> parts, uris |-> uris]

\* The exception of the first call in calls that raised, or none.
RECURSIVE FirstException(_)
FirstException(calls) ==
    IF calls = <<>> THEN NoException
    ELSE IF Head(calls).exc # NoException THEN Head(calls).exc
    ELSE FirstException(Tail(calls))

\* render_email_to_html(email): the exception that leaves it, the HTML it
\* returns and the attachments as render_attachment leaves them.
RenderEmailToHtml(e) ==
    LET calls == [i \in 1..Len(e.attachments) |-> RenderAttachment(e.attachments[i])]
        parts == [i \in 1..Len(calls) |-> calls[i].value]
    IN  [exc |-> FirstException(calls),
         value |-> EmailHtml(e.subject, parts, ImageUris(parts)),
         attachments |-> [i \in 1..Len(calls) |-> calls[i].attachment]]

(***************************************************************************)
(* generate_pdf.  The PDF backend, pisa.CreatePDF, lies outside the model: *)
(* given the document, it writes a PDF of one page or more to the open     *)
(* file and reports no error, or it reports errors, or it raises.          *)
(***************************************************************************)
DataColon == <<"d","a","t","a",":">>

RECURSIVE JoinParams(_)
JoinParams(params) ==
    IF params = <<>> THEN <<>>
    ELSE <<";">> \o Head(params) \o JoinParams(Tail(params))

\* uri.split(',', 1)[0]: the text of a data URI ahead of its first comma.
UriHeader(uri) == DataColon \o uri.mime \o JoinParams(uri.params)

\* sub in s
Contains(s, sub) ==
    \E i \in 1..(Len(s) - Len(sub) + 1) : SubSeq(s, i, i + Len(sub) - 1) = sub

\* The pattern data:[^"';\s]+;[^"';\s]*;[^"']*,[^"']* : it asks for a MIME
\* type and for two semicolons ahead of the comma.
MatchesDataUri(uri) ==
    uri.scheme = "data" /\ uri.mime # <<>> /\ Len(uri.params) >= 2

ImageExt(header) ==
    IF Contains(header, <<"j","p","e","g">>) \/ Contains(header, <<"j","p","g">>)
    THEN <<".","j","p","g">>
    ELSE IF Contains(header, <<"g","i","f">>) THEN <<".","g","i","f">>
    ELSE IF Contains(header, <<"w","e","b","p">>) THEN <<".","w","e","b","p">>
    ELSE <<".","p","n","g">>

\* f"image_{counter[0]}{ext}"
ImageName(n, ext) == <<"i","m","a","g","e","_">> \o IntStr(n) \o ext

\* re.sub(pattern, replace_data_uri, html_content): the matches in document
\* order.  The counter counts every match, also one whose data cannot be
\* decoded and which the handler gives back as it is.
RECURSIVE ReplaceDataUris(_, _, _, _)
ReplaceDataUris(fs, uris, image_dir, counter) ==
    IF uris = <<>> THEN [files |-> fs, uris |-> <<>>]
    ELSE LET uri == Head(uris)
             header == UriHeader(uri)
             temp_file == Join(image_dir,
                               ImageName(counter + 1, ImageExt(header)))
             replaced == MatchesDataUri(uri)
                         /\ (Contains(header, Base64) => uri.decodes)
             rest == ReplaceDataUris(
                        IF replaced THEN WriteFile(fs, temp_file, ImageFile) ELSE fs,
                        Tail(uris), image_dir,
                        IF MatchesDataUri(uri) THEN counter + 1 ELSE counter)
         IN  [files |-> rest.files,
              uris |-> <<IF replaced THEN FileUri(temp_file) ELSE uri>> \o rest.uris]

\* pisa.CreatePDF(full_html, dest=pdf_file): the exception it raises, the
\* error count of the status it returns and the file it leaves behind.
CreatePDF(full_html) ==
    { [exc |-> NoException, err |-> 0,
       file |-> PdfFile([k \in 1..n |-> Page(full_html.subject, k)], TRUE)] :
        n \in 1..MaxPages }
    \cup { [exc |-> NoException, err |-> 1, file |-> PdfFile(<<>>, FALSE)],
           [exc |-> "Exception", err |-> 0, file |-> PdfFile(<<>>, FALSE)] }

\* generate_pdf(html_content, output_path, image_temp_dir): the ways the
\* call can end, each the exception that leaves it and the file system
\* behind it.  open(output_path, "wb") needs the directory of the path.
generate_pdf(fs, html, path, image_dir) ==
    LET prepared == IF image_dir # NoPath
                    THEN ReplaceDataUris(Mkdir(fs, image_dir), html.uris,
                                         image_dir, 0)
                    ELSE [files |-> fs, uris |-> html.uris]
        full_html == [html EXCEPT !.uris = prepared.uris]
    IN  IF ~IsDir(prepared.files, Parent(path))
        THEN { [exc |-> "FileNotFoundError", files |-> prepared.files] }
        ELSE { [exc |-> IF pisa_status.exc # NoException THEN pisa_status.exc
                        ELSE IF pisa_status.err # 0 THEN "RuntimeError"
                        ELSE NoException,
                files |-> WriteFile(prepared.files, path, pisa_status.file)] :
               pisa_status \in CreatePDF(full_html) }

(***************************************************************************)
(* add_continuation_headers and merge_pdfs.  Writing a file may fail and   *)
(* then leaves what was written of it.                                     *)
(***************************************************************************)
\* PdfReader(path).pages
ReadPdf(fs, path) ==
    IF ~Exists(fs, path) THEN Raise("FileNotFoundError")
    ELSE IF fs[path].kind # "pdf" \/ ~fs[path].complete THEN Raise("PdfReadError")
    ELSE Returned(fs[path].pages)

\* with open(path, "wb") as f: writer.write(f)
WritePdf(fs, path, pages) ==
    IF ~IsDir(fs, Parent(path))
    THEN { [exc |-> "FileNotFoundError", files |-> fs] }
    ELSE { [exc |-> NoException, files |-> WriteFile(fs, path, PdfFile(pages, TRUE))],
           [exc |-> "OSError", files |-> WriteFile(fs, path, PdfFile(<<>>, FALSE))] }

max_subject_len == 60

DisplaySubject(subj) ==
    IF Len(subj) > max_subject_len
    THEN SubSeq(subj, 1, max_subject_len) \o <<".",".",".">>
    ELSE subj

\* create_header_overlay(page_num): the text it draws.
HeaderOverlay(subj, page_num, total_pages) ==
    [subject |-> DisplaySubject(subj), page_num |-> page_num,
     total_pages |-> total_pages]

\* Every page, the first too, gets the overlay.
StampedPagesFromFirst(pages, subj) ==
    [i \in 1..Len(pages) |->
        [pages[i] EXCEPT !.overlays = Append(@, HeaderOverlay(subj, i, Len(pages)))]]

\* The pages add_continuation_headers writes: page i + 1 is the page of
\* index i in enumerate(reader.pages).
StampedPages(pages, subj) ==
    LET total_pages == Len(pages)
    IN  IF total_pages <= 1 THEN pages
        ELSE [i \in 1..total_pages |->
                IF i = 1 THEN pages[i]
                ELSE [pages[i] EXCEPT
                        !.overlays = Append(@, HeaderOverlay(subj, i, total_pages))]]

\* add_continuation_headers(input_pdf, output_pdf, subject, from_addr)
add_continuation_headers(fs, input, output, subj) ==
    LET reader == ReadPdf(fs, input)
    IN  IF reader.exc # NoException THEN { [exc |-> reader.exc, files |-> fs] }
        ELSE WritePdf(fs, output, StampedPages(reader.value, subj))

\* The pages of the listed files in reverse order of the list.
RECURSIVE MergedPagesReversed(_, _)
MergedPagesReversed(fs, pdf_paths) ==
    IF pdf_paths = <<>> THEN Returned(<<>>)
    ELSE LET reader == ReadPdf(fs, Head(pdf_paths))
             rest == MergedPagesReversed(fs, Tail(pdf_paths))
         IN  IF reader.exc # NoException THEN reader
             ELSE IF rest.exc # NoException THEN rest
             ELSE Returned(rest.value \o reader.value)

\* The loop of merge_pdfs: writer.add_page for every page of every file, in
\* the order of the list.
RECURSIVE MergedPages(_, _)
MergedPages(fs, pdf_paths) ==
    IF pdf_paths = <<>> THEN Returned(<<>>)
    ELSE LET reader == ReadPdf(fs, Head(pdf_paths))
             rest == MergedPages(fs, Tail(pdf_paths))
         IN  IF reader.exc # NoException THEN reader
             ELSE IF rest.exc # NoException THEN rest
             ELSE Returned(reader.value \o rest.value)

\* merge_pdfs(pdf_paths, output_path)
merge_pdfs(fs, pdf_paths, path) ==
    LET merged == MergedPages(fs, pdf_paths)
    IN  IF merged.exc # NoException THEN { [exc |-> merged.exc, files |-> fs] }
        ELSE WritePdf(fs, path, merged.value)

(***************************************************************************)
(* The arithmetic of the progress value, 20 + int((i / total_groups) * 75). *)
(* i / total_groups and the product are Python floats: IEEE 754 doubles,   *)
(* each operation rounded to the nearest double, ties to even.  A positive *)
(* double is its significand, MantissaBits binary digits with the most     *)
(* significant (a 1) first, and its scale: its value is the significand    *)
(* divided by 2^scale.                                                     *)
(***************************************************************************)
MantissaBits == 53

Front(s) == IF s = <<>> THEN <<>> ELSE SubSeq(s, 1, Len(s) - 1)

RECURSIVE Pow2(_)
Pow2(n) == IF n = 0 THEN 1 ELSE 2 * Pow2(n - 1)

\* 2^n modulo d, by squaring.
RECURSIVE Pow2Mod(_, _)
Pow2Mod(n, d) ==
    IF n = 0 THEN 1 % d
    ELSE LET h == Pow2Mod(n \div 2, d)
         IN  IF n % 2 = 0 THEN (h * h) % d ELSE (2 * h * h) % d

\* The natural number of a few binary digits, the most significant first.
RECURSIVE BitsNat(_)
BitsNat(bits) == IF bits = <<>> THEN 0 ELSE 2 * BitsNat(Front(bits)) + bits[Len(bits)]

\* The ten binary digits of a natural number below 1024.
Digits10(n) == [j \in 1..10 |-> (n \div Pow2(10 - j)) % 2]

\* The digits without their leading zeros.
StripZeros(bits) ==
    IF \A j \in 1..Len(bits) : bits[j] = 0 THEN <<>>
    ELSE SubSeq(bits,
                CHOOSE j \in 1..Len(bits) :
                    bits[j] = 1 /\ \A m \in 1..(j - 1) : bits[m] = 0,
                Len(bits))

\* bits + 1
Increment(bits) ==
    LET zeros == { j \in 1..Len(bits) : bits[j] = 0 }
        last == CHOOSE j \in zeros : \A m \in zeros : m <= j
    IN  IF zeros = {} THEN <<1>> \o [j \in 1..Len(bits) |-> 0]
        ELSE [j \in 1..Len(bits) |->
                IF j < last THEN bits[j] ELSE IF j = last THEN 1 ELSE 0]

\* The digits of a in groups of ten, the least significant group first, each
\* as a number.
Limbs(a) ==
    [c \in 1..((Len(a) + 9) \div 10) |->
        BitsNat(SubSeq(a, IF Len(a) - 10 * c + 1 < 1 THEN 1 ELSE Len(a) - 10 * c + 1,
                       Len(a) - 10 * (c - 1)))]

RECURSIVE MulLimbs(_, _, _)
MulLimbs(limbs, k, carry) ==
    IF limbs = <<>> THEN <<carry>>
    ELSE LET t == Head(limbs) * k + carry
         IN  <<t % 1024>> \o MulLimbs(Tail(limbs), k, t \div 1024)

RECURSIVE LimbsBits(_)
LimbsBits(limbs) ==
    IF limbs = <<>> THEN <<>>
    ELSE LimbsBits(Tail(limbs)) \o Digits10(Head(limbs))

\* a * k on binary digits, k a natural number below 1024.
MulBits(a, k) == StripZeros(LimbsBits(MulLimbs(Limbs(a), k, 0)))

\* The first n binary digits of r / d behind the point (0 <= r < d), and the
\* remainder they leave: digit k is the integer part of twice the remainder
\* that k - 1 digits leave, which is r * 2^(k-1) modulo d.
Expand(r, d, n) ==
    [bits |-> [k \in 1..n |-> (2 * ((r * Pow2Mod(k - 1, d)) % d)) \div d],
     rem |-> (r * Pow2Mod(n, d)) % d]

\* The number of zeros r / d has behind the point ahead of its first 1
\* (0 < r < d).
RECURSIVE LeadingZeros(_, _)
LeadingZeros(r, d) == IF 2 * r >= d THEN 0 ELSE 1 + LeadingZeros(2 * r, d)

\* Rounding to MantissaBits digits, to nearest and ties to even: digits
\* starts with a 1 and is followed by more that is not zero iff sticky.
\* carried: the rounding went up to the next power of two.
RoundNearestEven(digits, sticky) ==
    LET kept == SubSeq(digits, 1, MantissaBits)
        dropped == SubSeq(digits, MantissaBits + 1, Len(digits))
        half == dropped # <<>> /\ dropped[1] = 1
        more == sticky \/ \E k \in 2..Len(dropped) : dropped[k] = 1
        up == half /\ (more \/ kept[MantissaBits] = 1)
        sum == IF up THEN Increment(kept) ELSE kept
    IN  [bits |-> SubSeq(sum, 1, MantissaBits), carried |-> Len(sum) > MantissaBits]

Float(bits, scale) == [bits |-> bits, scale |-> scale]

\* i / d for integers 0 < i < d.
FloatDiv(i, d) ==
    LET zeros == LeadingZeros(i, d)
        quotient == Expand(i * Pow2(zeros), d, MantissaBits + 1)
        rounded == RoundNearestEven(quotient.bits, quotient.rem # 0)
    IN  Float(rounded.bits,
              zeros + MantissaBits - (IF rounded.carried THEN 1 ELSE 0))

\* x * k for a double x and a natural number 1 <= k < 1024.
FloatMul(x, k) ==
    LET product == MulBits(x.bits, k)
        rounded == RoundNearestEven(product, FALSE)
    IN  Float(rounded.bits,
              x.scale - (Len(product) - MantissaBits)
                      - (IF rounded.carried THEN 1 ELSE 0))

\* int(x) for a double 0 < x < 2^MantissaBits: the digits ahead of the point.
FloatToInt(x) ==
    IF x.scale >= MantissaBits THEN 0
    ELSE BitsNat(SubSeq(x.bits, 1, MantissaBits - x.scale))

\* progress_pct = 20 + int((i / total_groups) * 75)
ProgressPct(i, n) ==
    20 + (IF i = 0 THEN 0 ELSE FloatToInt(FloatMul(FloatDiv(i, n), 75)))

(***************************************************************************)
(* The calls of the single rendering and PDF functions.                    *)
(***************************************************************************)
pipelineVars ==
    <<mbox_paths, grouping_strategy, progress_callback, emails, groups, date, key>>

\* No pipeline is under way.
PipelineIdle ==
    /\ mbox_paths = <<>>
    /\ grouping_strategy = "month"
    /\ progress_callback = FALSE
    /\ emails = <<>>
    /\ groups = <<>>
    /\ date = Jan04
    /\ key = NoKey

\* The attachments render_attachment is applied to.
RenderMimeTypes ==
    { MimeTextCsv, MimeTextCsvUpper, MimeTextHtml, MimeDocx, MimeXlsx,
      MimeTextPlain, MimeImagePng, MimeImagePngMixed, MimeAudioMpeg,
      MimeOctetStream }

RenderFilenames ==
    { NameDataCsv, NameDataCsvUpper, NamePageHtml, NameIndexHtm, NameReportDocx,
      NameSheetXlsx, NameNotesTxt, NameTimelinePng, NameMeetingMp3,
      UnnamedAttachment }

RenderContents ==
    { Bytes("content", 2048), Bytes("nothing", 0), Bytes("corrupt", 2048) }

RenderInit ==
    /\ SideIdle
    /\ RunIdle
    /\ PipelineIdle
    /\ attachment \in { Attachment(f, m, b.len, b) :
                          f \in RenderFilenames, m \in RenderMimeTypes,
                          b \in RenderContents }
    /\ html_content = NoHtml
    /\ input_pdf = NoPath
    /\ output_path = NoPath
    /\ image_temp_dir = NoPath
    /\ subject = <<>>
    /\ files = NoFiles
    /\ raised = NoException
    /\ pc = "call"

\* One call of render_attachment(attachment).
RenderAttachmentCall ==
    /\ pc = "call"
    /\ UNCHANGED sideVars
    /\ LET r == RenderAttachment(attachment)
       IN  /\ raised' = r.exc
           /\ attachment' = r.attachment
           /\ html_content' = r.value
           /\ pc' = IF r.exc = NoException THEN "returned" ELSE "raised"
    /\ UNCHANGED <<input_pdf, output_path, image_temp_dir, subject, files>>
    /\ UNCHANGED pipelineVars
    /\ UNCHANGED runVars

RenderNext == RenderAttachmentCall

SpecRender == RenderInit /\ [][RenderNext]_vars

\* The working directory of a call, and the files of one email in it.
WorkDir == << <<"t","m","p">> >>

\* f"email_{j:04d}_raw.pdf", f"email_{j:04d}_images", f"email_{j:04d}.pdf"
RawPdfName(j) ==
    <<"e","m","a","i","l","_">> \o Pad4(j) \o <<"_","r","a","w",".","p","d","f">>

ImagesDirName(j) ==
    <<"e","m","a","i","l","_">> \o Pad4(j) \o <<"_","i","m","a","g","e","s">>

FinalPdfName(j) == <<"e","m","a","i","l","_">> \o Pad4(j) \o <<".","p","d","f">>

MimeImageJpeg == <<"i","m","a","g","e","/","j","p","e","g">>

MimeImageGif == <<"i","m","a","g","e","/","g","i","f">>

Charset == <<"c","h","a","r","s","e","t","=","u","t","f","-","8">>

\* The URIs a document handed to generate_pdf may embed: the one the image
\* renderer writes, and URIs with a parameter ahead of base64.
UriPool ==
    { DataUri(MimeImagePng, <<Base64>>, TRUE),
      DataUri(MimeImagePng, <<Charset, Base64>>, TRUE),
      DataUri(MimeImageJpeg, <<Charset, Base64>>, FALSE),
      DataUri(MimeImageGif, <<Charset, Base64>>, TRUE) }

\* The file systems generate_pdf is run in: the directory of the output
\* path is there or not, and a file of an earlier run may lie at the path.
GenerateFileSystems ==
    { NoFiles,
      Mkdir(NoFiles, WorkDir),
      WriteFile(Mkdir(NoFiles, WorkDir), Join(WorkDir, RawPdfName(0)),
                PdfFile(<<Page(SubjectNoId, 1)>>, TRUE)) }

GenerateInit ==
    /\ SideIdle
    /\ RunIdle
    /\ PipelineIdle
    /\ attachment = NoAttachment
    /\ html_content \in { EmailHtml(SubjectOne, <<>>, uris) :
                            uris \in SeqsUpTo(UriPool, MaxUris) }
    /\ input_pdf = NoPath
    /\ output_path = Join(WorkDir, RawPdfName(0))
    /\ image_temp_dir \in { NoPath, Join(WorkDir, ImagesDirName(0)) }
    /\ subject = <<>>
    /\ files \in GenerateFileSystems
    /\ raised = NoException
    /\ pc = "call"

\* One call of generate_pdf(html_content, output_path, image_temp_dir).
GeneratePdfCall ==
    /\ pc = "call"
    /\ UNCHANGED sideVars
    /\ \E outcome \in generate_pdf(files, html_content, output_path, image_temp_dir) :
          /\ raised' = outcome.exc
          /\ files' = outcome.files
          /\ pc' = IF outcome.exc = NoException THEN "returned" ELSE "raised"
    /\ UNCHANGED <<attachment, html_content, input_pdf, output_path,
                   image_temp_dir, subject>>
    /\ UNCHANGED pipelineVars
    /\ UNCHANGED runVars

GenerateNext == GeneratePdfCall

SpecGenerate == GenerateInit /\ [][GenerateNext]_vars

\* A subject one character longer than the header shows.
LongSubject == [k \in 1..(max_subject_len + 1) |-> "x"]

\* The pages of the PDFs add_continuation_headers is applied to.
PagePool == { Page(SubjectOne, 1), Page(SubjectOne, 2), Page(SubjectNoId, 1) }

\* The file systems add_continuation_headers is run in: the input is a PDF
\* of some pages, a file that was not written to its end, or missing.
StampFileSystems ==
    { WriteFile(Mkdir(NoFiles, WorkDir), Join(WorkDir, RawPdfName(0)),
                PdfFile(pages, TRUE)) : pages \in SeqsUpTo(PagePool, MaxStampPages) }
    \cup { WriteFile(Mkdir(NoFiles, WorkDir), Join(WorkDir, RawPdfName(0)),
                     PdfFile(<<>>, FALSE)),
           Mkdir(NoFiles, WorkDir) }

StampInit ==
    /\ SideIdle
    /\ RunIdle
    /\ PipelineIdle
    /\ attachment = NoAttachment
    /\ html_content = NoHtml
    /\ input_pdf = Join(WorkDir, RawPdfName(0))
    /\ output_path = Join(WorkDir, FinalPdfName(0))
    /\ image_temp_dir = NoPath
    /\ subject \in { SubjectOne, LongSubject }
    /\ files \in StampFileSystems
    /\ raised = NoException
    /\ pc = "call"

\* One call of add_continuation_headers(input_pdf, output_pdf, subject,
\* from_addr), output_pdf being output_path.
AddContinuationHeadersCall ==
    /\ pc = "call"
    /\ UNCHANGED sideVars
    /\ \E outcome \in add_continuation_headers(files, input_pdf, output_path, subject) :
          /\ raised' = outcome.exc
          /\ files' = outcome.files
          /\ pc' = IF outcome.exc = NoException THEN "returned" ELSE "raised"
    /\ UNCHANGED <<attachment, html_content, input_pdf, output_path,
                   image_temp_dir, subject>>
    /\ UNCHANGED pipelineVars
    /\ UNCHANGED runVars

StampNext == AddContinuationHeadersCall

SpecStamp == StampInit /\ [][StampNext]_vars

\* The call of the progress callback, progress_callback(current, total, ...).
ProgressCall(current) == [current |-> current, total |-> 100]

ProgressInit ==
    /\ SideIdle
    /\ CallIdle
    /\ mbox_paths = <<>>
    /\ grouping_strategy = "month"
    /\ progress_callback = TRUE
    /\ emails = <<>>
    /\ groups = <<>>
    /\ date = Jan04
    /\ key = NoKey
    /\ total_groups \in 1..MaxGroups
    /\ group_i \in 1..total_groups
    /\ email_j = 0
    /\ email_pdfs = <<>>
    /\ errors = <<>>
    /\ attachment_errors = <<>>
    /\ created_files = <<>>
    /\ progress = <<>>
    /\ result = NoResult
    /\ raised = NoException
    /\ pc = "call"

\* The report at the head of the loop over the groups, for the group of
\* index group_i - 1 in enumerate(groups.items()).
GroupProgressCall ==
    /\ pc = "call"
    /\ UNCHANGED sideVars
    /\ progress' = Append(progress, ProgressCall(ProgressPct(group_i - 1, total_groups)))
    /\ pc' = "returned"
    /\ UNCHANGED <<total_groups, group_i, email_j, email_pdfs, errors,
                   attachment_errors, created_files, result, raised, files>>
    /\ UNCHANGED callVars
    /\ UNCHANGED pipelineVars

ProgressNext == GroupProgressCall

SpecProgress == ProgressInit /\ [][ProgressNext]_vars

(***************************************************************************)
(* convert_mbox_to_pdfs.  pc is the statement the call stands at:          *)
(*   "parse"   merge_and_deduplicate and the checks behind it              *)
(*   "group"   group_emails_by_date                                        *)
(*   "begin_group"  the head of the loop over the groups                   *)
(*   "render", "generate", "stamp"  the three steps of one email           *)
(*   "merge"   the end of the group: merge_pdfs                            *)
(*   "returned", "raised"  the call has ended                              *)
(* The PDF backend and the writing of files are outside the model: each   *)
(* of their calls has the outcomes generate_pdf, add_continuation_headers *)
(* and merge_pdfs list for it.                                             *)
(***************************************************************************)
\* An entry of errors: the text of the message and what it names.
ErrorString(text, subj, group_key, cause) ==
    [text |-> text, subject |-> subj, group_key |-> group_key, cause |-> cause]

\* AttachmentErrorInfo(email_subject, ..., attachment_filename, mime_type,
\*                     ..., error_type, error_message)
AttachmentErrorInfo(email_subject, attachment_filename, mime_type, error_type, error_message) ==
    [email_subject |-> email_subject, attachment_filename |-> attachment_filename,
     mime_type |-> mime_type, error_type |-> error_type,
     error_message |-> error_message]

\* The loop with two ifs in the place of if and elif.
RECURSIVE AttachmentErrorInfosNoElse(_, _)
AttachmentErrorInfosNoElse(email_subject, attachments) ==
    IF attachments = <<>> THEN <<>>
    ELSE LET a == Head(attachments)
         IN  (IF a.error # <<>>
              THEN <<AttachmentErrorInfo(email_subject, a.filename, a.mime_type,
                                         "rendering_failed", a.error)>>
              ELSE <<>>)
             \o (IF a.content_type = <<"reference">>
                 THEN <<AttachmentErrorInfo(email_subject, a.filename, a.mime_type,
                                            "unsupported_type", <<>>)>>
                 ELSE <<>>)
             \o AttachmentErrorInfosNoElse(email_subject, Tail(attachments))

\* The loop over email.attachments behind render_email_to_html: the records
\* it appends, in the order of the attachments.
RECURSIVE AttachmentErrorInfos(_, _)
AttachmentErrorInfos(email_subject, attachments) ==
    IF attachments = <<>> THEN <<>>
    ELSE LET a == Head(attachments)
         IN  (IF a.error # <<>>
              THEN <<AttachmentErrorInfo(email_subject, a.filename, a.mime_type,
                                         "rendering_failed", a.error)>>
              ELSE IF a.content_type = <<"reference">>
              THEN <<AttachmentErrorInfo(email_subject, a.filename, a.mime_type,
                                         "unsupported_type", <<>>)>>
              ELSE <<>>)
             \o AttachmentErrorInfos(email_subject, Tail(attachments))

\* if progress_callback: progress_callback(current, 100, ...)
Report(calls, current) ==
    IF progress_callback THEN Append(calls, ProgressCall(current)) ELSE calls

output_dir == << <<"o","u","t">> >>

group_key == groups[group_i].key

group_emails == groups[group_i].emails

email == group_emails[email_j]

\* The directory tempfile.TemporaryDirectory() makes for a group.
temp_path == Join(WorkDir, IntStr(group_i))

\* email_j counts from one, the j of enumerate(group_emails) from zero.
raw_pdf == Join(temp_path, RawPdfName(email_j - 1))

images_dir == Join(temp_path, ImagesDirName(email_j - 1))

final_pdf == Join(temp_path, FinalPdfName(email_j - 1))

\* output_dir / f"{group_key}.pdf"
PdfPath(k) == Join(output_dir, k \o <<".","p","d","f">>)

pdf_path == PdfPath(group_key)

RunInit ==
    /\ SideIdle
    /\ RunIdle
    /\ CallIdle
    /\ progress_callback \in BOOLEAN
    /\ mbox_paths \in PathLists(MessagePool, MaxRunFiles, MaxRunMessages)
    /\ grouping_strategy \in Strategies
    /\ emails = <<>>
    /\ groups = <<>>
    /\ raised = NoException
    /\ date = Jan04
    /\ key = NoKey
    /\ pc = "parse"

\* Step 1: the output directory, the first report, parse and de-duplicate;
\* the two early returns.
ParseAndDeduplicate ==
    /\ pc = "parse"
    /\ UNCHANGED sideVars
    /\ files' = Mkdir(files, output_dir)
    /\ LET r == MergeAndDeduplicate(mbox_paths)
       IN  IF r.exc # NoException
           THEN /\ result' = ConversionResult(FALSE, 0, 0,
                     <<ErrorString("Failed to parse mbox files", <<>>, <<>>, r.exc)>>,
                     <<>>, <<>>)
                /\ progress' = Report(progress, 0)
                /\ pc' = "returned"
                /\ UNCHANGED emails
           ELSE IF r.value = <<>>
           THEN /\ result' = ConversionResult(TRUE, 0, 0,
                     <<ErrorString("No emails found in the provided mbox files",
                                   <<>>, <<>>, "")>>, <<>>, <<>>)
                /\ progress' = Report(progress, 0)
                /\ pc' = "returned"
                /\ UNCHANGED emails
           ELSE /\ emails' = r.value
                /\ progress' = Report(Report(progress, 0), 10)
                /\ pc' = "group"
                /\ UNCHANGED result
    /\ UNCHANGED <<mbox_paths, grouping_strategy, progress_callback, groups, raised,
                   date, key, total_groups, group_i, email_j, email_pdfs, errors,
                   attachment_errors, created_files>>
    /\ UNCHANGED callVars

\* Step 2: group by date.  The call stands in no try block.
GroupByDate ==
    /\ pc = "group"
    /\ UNCHANGED sideVars
    /\ LET r == GroupEmailsByDate(emails, grouping_strategy)
       IN  IF r.exc # NoException
           THEN /\ raised' = r.exc
                /\ pc' = "raised"
                /\ UNCHANGED <<groups, total_groups, group_i, progress>>
           ELSE /\ groups' = r.value
                /\ total_groups' = Len(r.value)
                /\ group_i' = 1
                /\ progress' = Report(progress, 20)
                /\ pc' = "begin_group"
                /\ UNCHANGED raised
    /\ UNCHANGED <<mbox_paths, grouping_strategy, progress_callback, emails, date,
                   key, email_j, email_pdfs, errors, attachment_errors,
                   created_files, result, files>>
    /\ UNCHANGED callVars

\* The head of the loop over groups.items(): the report, the temporary
\* directory of the group and a fresh list of per-email PDFs.
BeginGroup ==
    /\ pc = "begin_group"
    /\ UNCHANGED sideVars
    /\ group_i <= Len(groups)
    /\ progress' = Report(progress, ProgressPct(group_i - 1, total_groups))
    /\ files' = Mkdir(files, temp_path)
    /\ email_pdfs' = <<>>
    /\ email_j' = 1
    /\ pc' = "render"
    /\ UNCHANGED <<mbox_paths, grouping_strategy, progress_callback, emails, groups,
                   raised, date, key, total_groups, group_i, errors,
                   attachment_errors, created_files, result>>
    /\ UNCHANGED callVars

\* The loop over group_emails moves on to the next email, or leaves the
\* loop for the merge of the group.
NextEmail ==
    /\ email_j' = email_j + 1
    /\ pc' = IF email_j < Len(group_emails) THEN "render" ELSE "merge"

\* The handler re-raises.
EmailFailedPropagates(cause) ==
    /\ raised' = cause
    /\ pc' = "raised"
    /\ UNCHANGED <<errors, email_j, email_pdfs>>

\* except Exception as e: one entry, and on with the loop.
EmailFailed(cause) ==
    /\ errors' = Append(errors,
          ErrorString("Failed to process email", email.subject, <<>>, cause))
    /\ NextEmail
    /\ UNCHANGED <<raised, email_pdfs>>

\* render_email_to_html(email) and the pass over its attachments.  The
\* header and the body are rendered ahead of the attachments; their
\* rendering lies outside the model and returns or raises.
RenderEmail ==
    /\ pc = "render"
    /\ UNCHANGED sideVars
    /\ \/ LET r == RenderEmailToHtml(email)
          IN  IF r.exc # NoException
              THEN /\ EmailFailed(r.exc)
                   /\ UNCHANGED <<html_content, attachment_errors>>
              ELSE /\ html_content' = r.value
                   /\ attachment_errors' = attachment_errors
                         \o AttachmentErrorInfos(email.subject, r.attachments)
                   /\ pc' = "generate"
                   /\ UNCHANGED <<errors, email_j, email_pdfs, raised>>
       \/ /\ EmailFailed("render_email_to_html")
          /\ UNCHANGED <<html_content, attachment_errors>>
    /\ UNCHANGED <<mbox_paths, grouping_strategy, progress_callback, emails, groups,
                   date, key, total_groups, group_i, created_files, progress,
                   result, files>>
    /\ UNCHANGED <<attachment, input_pdf, output_path, image_temp_dir, subject>>

\* generate_pdf(email_html, raw_pdf, image_temp_dir=images_dir)
GeneratePdf ==
    /\ pc = "generate"
    /\ UNCHANGED sideVars
    /\ \E outcome \in generate_pdf(files, html_content, raw_pdf, images_dir) :
          /\ files' = outcome.files
          /\ IF outcome.exc = NoException
             THEN /\ pc' = "stamp"
                  /\ UNCHANGED <<errors, email_j, email_pdfs, raised>>
             ELSE EmailFailed(outcome.exc)
    /\ UNCHANGED <<mbox_paths, grouping_strategy, progress_callback, emails, groups,
                   date, key, total_groups, group_i, attachment_errors,
                   created_files, progress, result>>
    /\ UNCHANGED callVars

\* add_continuation_headers(raw_pdf, final_pdf, ...); email_pdfs.append(final_pdf)
AddContinuationHeaders ==
    /\ pc = "stamp"
    /\ UNCHANGED sideVars
    /\ \E outcome \in add_continuation_headers(files, raw_pdf, final_pdf, email.subject) :
          /\ files' = outcome.files
          /\ IF outcome.exc = NoException
             THEN /\ email_pdfs' = Append(email_pdfs, final_pdf)
                  /\ NextEmail
                  /\ UNCHANGED <<errors, raised>>
             ELSE EmailFailed(outcome.exc)
    /\ UNCHANGED <<mbox_paths, grouping_strategy, progress_callback, emails, groups,
                   date, key, total_groups, group_i, attachment_errors,
                   created_files, progress, result>>
    /\ UNCHANGED callVars

\* The handler records the failure and lists the file all the same.
MergeFailedButListed(cause) ==
    /\ errors' = Append(errors,
          ErrorString("Failed to merge PDFs for", <<>>, group_key, cause))
    /\ created_files' = Append(created_files, pdf_path)
    /\ group_i' = group_i + 1
    /\ pc' = "begin_group"
    /\ UNCHANGED raised

\* except Exception as e: one entry, and on with the next group.
MergeFailed(cause) ==
    /\ errors' = Append(errors,
          ErrorString("Failed to merge PDFs for", <<>>, group_key, cause))
    /\ group_i' = group_i + 1
    /\ pc' = "begin_group"
    /\ UNCHANGED <<created_files, raised>>

\* The end of a group: no PDF at all, or merge_pdfs(email_pdfs, pdf_path).
\* Either way the with block is left and the temporary directory removed.
MergeGroup ==
    /\ pc = "merge"
    /\ UNCHANGED sideVars
    /\ IF email_pdfs = <<>>
       THEN /\ errors' = Append(errors,
                  ErrorString("No emails processed for group", <<>>, group_key, ""))
            /\ files' = RemoveTree(files, temp_path)
            /\ group_i' = group_i + 1
            /\ pc' = "begin_group"
            /\ UNCHANGED <<created_files, raised>>
       ELSE \E outcome \in merge_pdfs(files, email_pdfs, pdf_path) :
               /\ files' = RemoveTree(outcome.files, temp_path)
               /\ IF outcome.exc = NoException
                  THEN /\ created_files' = Append(created_files, pdf_path)
                       /\ group_i' = group_i + 1
                       /\ pc' = "begin_group"
                       /\ UNCHANGED <<errors, raised>>
                  ELSE MergeFailed(outcome.exc)
    /\ UNCHANGED <<mbox_paths, grouping_strategy, progress_callback, emails, groups,
                   date, key, total_groups, email_j, email_pdfs,
                   attachment_errors, progress, result>>
    /\ UNCHANGED callVars

\* The return with success=True whatever was created.
FinishAlwaysSucceeds ==
    /\ pc = "begin_group"
    /\ UNCHANGED sideVars
    /\ group_i > Len(groups)
    /\ progress' = Report(progress, 100)
    /\ result' = ConversionResult(TRUE, Len(created_files),
                                  Len(emails), errors, attachment_errors,
                                  created_files)
    /\ pc' = "returned"
    /\ UNCHANGED <<mbox_paths, grouping_strategy, progress_callback, emails, groups,
                   raised, date, key, total_groups, group_i, email_j, email_pdfs,
                   errors, attachment_errors, created_files, files>>
    /\ UNCHANGED callVars

\* The return with the emails counted that no per-email error names.
FinishCountsConverted ==
    /\ pc = "begin_group"
    /\ UNCHANGED sideVars
    /\ group_i > Len(groups)
    /\ progress' = Report(progress, 100)
    /\ result' = ConversionResult(Len(created_files) > 0, Len(created_files),
                                  Len(emails) - Len(SelectSeq(errors,
                                      LAMBDA e : e.text = "Failed to process email")),
                                  errors, attachment_errors, created_files)
    /\ pc' = "returned"
    /\ UNCHANGED <<mbox_paths, grouping_strategy, progress_callback, emails, groups,
                   raised, date, key, total_groups, group_i, email_j, email_pdfs,
                   errors, attachment_errors, created_files, files>>
    /\ UNCHANGED callVars

\* Behind the loop: the last report and the ConversionResult of a run that
\* reached the groups.
Finish ==
    /\ pc = "begin_group"
    /\ UNCHANGED sideVars
    /\ group_i > Len(groups)
    /\ progress' = Report(progress, 100)
    /\ result' = ConversionResult(Len(created_files) > 0, Len(created_files),
                                  Len(emails), errors, attachment_errors,
                                  created_files)
    /\ pc' = "returned"
    /\ UNCHANGED <<mbox_paths, grouping_strategy, progress_callback, emails, groups,
                   raised, date, key, total_groups, group_i, email_j, email_pdfs,
                   errors, attachment_errors, created_files, files>>
    /\ UNCHANGED callVars

Next ==
    \/ ParseAndDeduplicate
    \/ GroupByDate
    \/ BeginGroup
    \/ RenderEmail
    \/ GeneratePdf
    \/ AddContinuationHeaders
    \/ MergeGroup
    \/ Finish

Spec == RunInit /\ [][Next]_vars

(***************************************************************************)
(* C10: the format of a group key.                                         *)
(***************************************************************************)
\* The value of a decimal digit string, read back character by character.
DigitValue(c) == CHOOSE n \in 0..9 : DigitChar(n) = c

IsDigit(c) == \E n \in 0..9 : DigitChar(n) = c

RECURSIVE Numeral(_)
Numeral(s) ==
    IF s = <<>> THEN 0
    ELSE Numeral(SubSeq(s, 1, Len(s) - 1)) * 10 + DigitValue(s[Len(s)])

AllDigits(s) == \A i \in 1..Len(s) : IsDigit(s[i])

\* The quarter of a month as the claim tabulates it.
QuarterTable(m) ==
    IF m \in 1..3 THEN 1 ELSE IF m \in 4..6 THEN 2 ELSE IF m \in 7..9 THEN 3 ELSE 4

EnglishMonths ==
    << <<"J","a","n","u","a","r","y">>, <<"F","e","b","r","u","a","r","y">>,
       <<"M","a","r","c","h">>, <<"A","p","r","i","l">>, <<"M","a","y">>,
       <<"J","u","n","e">>, <<"J","u","l","y">>, <<"A","u","g","u","s","t">>,
       <<"S","e","p","t","e","m","b","e","r">>, <<"O","c","t","o","b","e","r">>,
       <<"N","o","v","e","m","b","e","r">>, <<"D","e","c","e","m","b","e","r">> >>

MonthKeyFormat(k, dt) ==
    /\ Len(k) = 8 + Len(EnglishMonths[dt.month])
    /\ AllDigits(SubSeq(k, 1, 4)) /\ Numeral(SubSeq(k, 1, 4)) = dt.year
    /\ k[5] = "-"
    /\ AllDigits(SubSeq(k, 6, 7)) /\ Numeral(SubSeq(k, 6, 7)) = dt.month
    /\ k[8] = "-"
    /\ SubSeq(k, 9, Len(k)) = EnglishMonths[dt.month]

QuarterKeyFormat(k, dt) ==
    /\ Len(k) = 7
    /\ AllDigits(SubSeq(k, 1, 4)) /\ Numeral(SubSeq(k, 1, 4)) = dt.year
    /\ k[5] = "-" /\ k[6] = "Q"
    /\ IsDigit(k[7]) /\ DigitValue(k[7]) = QuarterTable(dt.month)
    /\ DigitValue(k[7]) \in 1..4

YearKeyFormat(k, dt) ==
    /\ Len(k) = 4
    /\ AllDigits(k) /\ Numeral(k) = dt.year

Is20080104(dt) == dt.year = 2008 /\ dt.month = 1 /\ dt.day = 4

\* C10: the key returned by _get_group_key is YYYY-MM-MonthName (two-digit,
\* zero-padded month) under 'month', YYYY-Q{q} with q = 1 for months 1-3,
\* 2 for 4-6, 3 for 7-9, 4 for 10-12 under 'quarter', and YYYY under 'year';
\* 2008-01-04 gives 2008-01-January, 2008-Q1 and 2008.
C10_GroupKeyFormat ==
    pc = "returned" =>
        /\ grouping_strategy = "month" => MonthKeyFormat(key, date)
        /\ grouping_strategy = "quarter" => QuarterKeyFormat(key, date)
        /\ grouping_strategy = "year" => YearKeyFormat(key, date)
        /\ Is20080104(date) =>
            /\ grouping_strategy = "month" =>
                 key = <<"2","0","0","8","-","0","1","-","J","a","n","u","a","r","y">>
            /\ grouping_strategy = "quarter" => key = <<"2","0","0","8","-","Q","1">>
            /\ grouping_strategy = "year" => key = <<"2","0","0","8">>

\* A key has been returned for a month of the last quarter.
C10_Witness ==
    /\ pc = "returned"
    /\ grouping_strategy = "quarter"
    /\ date.month = 12
    /\ key[7] = "4"

\* A key has been returned for the date 2008-01-04.
KeyReturnedFor20080104 ==
    /\ pc = "returned"
    /\ Is20080104(date)
    /\ grouping_strategy = "month"

(***************************************************************************)
(* C4 - C8: merge_and_deduplicate.                                         *)
(***************************************************************************)
\* What the parser returns for the listed files, file after file, each
\* file's emails in the parser's output order.
RECURSIVE AllParsed(_)
AllParsed(paths) ==
    IF paths = <<>> THEN <<>>
    ELSE ParseMbox(Head(paths)).value \o AllParsed(Tail(paths))

MergeReturned == pc = "returned" /\ raised = NoException

Count(es, id) == Cardinality({ i \in 1..Len(es) : es[i].message_id = id })

\* C4: the sequence merge_and_deduplicate returns holds no two emails with
\* the same message identifier.
C4_NoDuplicateIds ==
    MergeReturned =>
        \A i, j \in 1..Len(emails) :
            i # j => emails[i].message_id # emails[j].message_id

\* A returned merge of a list in which one file holds an identifier twice.
C4_Witness ==
    /\ MergeReturned
    /\ Len(emails) >= 1
    /\ \E f \in 1..Len(mbox_paths) :
         \E i, j \in 1..Len(mbox_paths[f].messages) :
            /\ i < j
            /\ mbox_paths[f].messages[i].message_id = <<"<a>">>
            /\ mbox_paths[f].messages[j].message_id = <<"<a>">>

\* C5: for each identifier among the parsed emails, the email kept is the
\* first one met when the files are taken in list order and each file's
\* emails in the parser's output order; exactly one email is kept for it.
C5_FirstOccurrenceWins ==
    MergeReturned =>
        LET all == AllParsed(mbox_paths)
        IN  \A n \in 1..Len(all) :
                (\A m \in 1..(n - 1) : all[m].message_id # all[n].message_id)
                    => /\ \E i \in 1..Len(emails) : emails[i] = all[n]
                       /\ Count(emails, all[n].message_id) = 1

\* A returned merge where a later occurrence of a kept identifier differs
\* in content from the first.
C5_Witness ==
    /\ MergeReturned
    /\ LET all == AllParsed(mbox_paths)
       IN  \E m, n \in 1..Len(all) :
              /\ m < n
              /\ all[m].message_id = all[n].message_id
              /\ all[m].subject # all[n].subject
              /\ all[m].date # all[n].date

Orderings(n) ==
    { p \in [1..n -> 1..n] : \A i, j \in 1..n : i # j => p[i] # p[j] }

Permuted(paths, p) == [i \in 1..Len(paths) |-> paths[p[i]]]

\* C6: the number of emails returned is the number of distinct identifiers
\* among the parsed emails, so a merge of the files in any other order, or
\* of the list written twice over, that returns, returns as many.
C6_CountIsDistinctIds ==
    MergeReturned =>
        /\ Len(emails) = Cardinality(SeenMessageIds(AllParsed(mbox_paths)))
        /\ \A p \in Orderings(Len(mbox_paths)) :
              LET r == MergeAndDeduplicate(Permuted(mbox_paths, p))
              IN  r.exc = NoException => Len(r.value) = Len(emails)
        /\ LET r == MergeAndDeduplicate(mbox_paths \o mbox_paths)
           IN  r.exc = NoException /\ Len(r.value) = Len(emails)

\* A returned merge of two different files that share an identifier.
C6_Witness ==
    /\ MergeReturned
    /\ Len(mbox_paths) = 2
    /\ mbox_paths[1] # mbox_paths[2]
    /\ SeenMessageIds(ParseMbox(mbox_paths[1]).value)
          \cap SeenMessageIds(ParseMbox(mbox_paths[2]).value) # {}
    /\ Len(emails) = 2

\* C7: every email of a de-duplicated sequence has a non-empty identifier,
\* and every message without a Message-ID header that the parser accepts
\* is kept (none is collapsed into another one).
C7_NonEmptyIds ==
    MergeReturned =>
        /\ \A i \in 1..Len(emails) : emails[i].message_id # ""
        /\ Count(emails, "") = Count(AllParsed(mbox_paths), "")

SortedByDate(es) ==
    \A i \in 1..(Len(es) - 1) : Instant(es[i].date) <= Instant(es[i + 1].date)

\* C8: what parse_mbox returns for a file and what merge_and_deduplicate
\* returns for the list are sorted by date ascending.
C8_SortedAscending ==
    /\ MergeReturned => SortedByDate(emails)
    /\ \A f \in 1..Len(mbox_paths) :
          LET r == ParseMbox(mbox_paths[f])
          IN  r.exc = NoException => SortedByDate(r.value)

\* A returned merge of two emails with different offsets that stand in the
\* file in the opposite of their date order.
C8_Witness ==
    /\ MergeReturned
    /\ Len(emails) = 2
    /\ emails[1].date.tz # emails[2].date.tz
    /\ Instant(emails[1].date) < Instant(emails[2].date)
    /\ \E f \in 1..Len(mbox_paths) :
          /\ Len(mbox_paths[f].messages) >= 2
          /\ mbox_paths[f].messages[1].date = <<<<emails[2].date>>>>
          /\ mbox_paths[f].messages[2].date = <<<<emails[1].date>>>>

(***************************************************************************)
(* C9: group_emails_by_date.                                               *)
(***************************************************************************)
RECURSIVE Concat(_)
Concat(gs) == IF gs = <<>> THEN <<>> ELSE Head(gs).emails \o Concat(Tail(gs))

Occurrences(es, e) == Cardinality({ i \in 1..Len(es) : es[i] = e })

Partitioned(gs, es, strategy) ==
    /\ \A e \in EmailPool : Occurrences(Concat(gs), e) = Occurrences(es, e)
    /\ \A i \in 1..Len(gs) :
          /\ gs[i].emails # <<>>
          /\ SortedByDate(gs[i].emails)
          /\ \A n \in 1..Len(gs[i].emails) :
                GetGroupKey(gs[i].emails[n].date, strategy) = gs[i].key
    /\ \A i \in 1..(Len(gs) - 1) : StrLess(gs[i].key, gs[i + 1].key)
    /\ es = <<>> => gs = <<>>

\* C9: for every valid strategy and every input sequence the call returns
\* a mapping in which each input email stands in exactly one bucket, the
\* one of its date's group key; no email is lost or duplicated, every
\* bucket is non-empty and sorted by date, the keys ascend, and an empty
\* input gives the empty mapping.
C9_GroupingPartitions ==
    (pc # "call" /\ grouping_strategy \in ValidStrategies) =>
        /\ pc = "returned"
        /\ Partitioned(groups, emails, grouping_strategy)

\* The same for the inputs on which the call returns.
GroupingPartitionsWhenReturned ==
    (pc = "returned" /\ grouping_strategy \in ValidStrategies) =>
        Partitioned(groups, emails, grouping_strategy)

GroupingReturnedSeveralBuckets ==
    /\ pc = "returned"
    /\ Len(groups) >= 2
    /\ \E i \in 1..Len(groups) : Len(groups[i].emails) >= 2

(***************************************************************************)
(* C1 - C3: the failures convert_mbox_to_pdfs meets.                       *)
(***************************************************************************)
EmailSteps == {"render", "generate", "stamp"}

\* The exceptions the handler of an email step catches.
StepExceptions(at) ==
    IF at = "render" THEN {"render_email_to_html"}
    ELSE IF at = "generate" THEN {"RuntimeError", "Exception", "FileNotFoundError"}
    ELSE {"OSError", "PdfReadError", "FileNotFoundError"}

\* errors has grown by exactly one entry in the step.
OneErrorAppended ==
    /\ Len(errors') = Len(errors) + 1
    /\ SubSeq(errors', 1, Len(errors)) = errors

\* The step of an email left it behind and went on to the next email of the
\* group or, behind the last, to the end of the group.
OnToNextEmail ==
    /\ group_i' = group_i
    /\ email_j' = email_j + 1
    /\ pc' = IF email_j < Len(group_emails) THEN "render" ELSE "merge"

OnToNextGroup ==
    /\ group_i' = group_i + 1
    /\ pc' = "begin_group"

\* A step of an email: it succeeds and adds no error, or it adds one error
\* string that names the email and the call that raised, and goes on.
EmailStepCaught ==
    pc \in EmailSteps =>
        /\ raised' = NoException
        /\ pc' # "raised"
        /\ \/ errors' = errors /\ group_i' = group_i
           \/ /\ OneErrorAppended
              /\ \E cause \in StepExceptions(pc) :
                    errors'[Len(errors')] =
                      ErrorString("Failed to process email", email.subject, <<>>,
                                  cause)
              /\ email_pdfs' = email_pdfs
              /\ OnToNextEmail

\* The end of a group: the PDF is written and no error added, or one error
\* string that names the group is added; either way the next group is on.
MergeStepCaught ==
    pc = "merge" =>
        /\ raised' = NoException
        /\ pc' # "raised"
        /\ OnToNextGroup
        /\ \/ errors' = errors /\ created_files' = Append(created_files, pdf_path)
           \/ /\ OneErrorAppended
              /\ errors'[Len(errors')].group_key = group_key
              /\ created_files' = created_files

\* The statement the call stands at can be executed: its group and its email
\* are there, and the call it makes has an outcome.
StepCanBeTaken ==
    /\ pc = "begin_group" => group_i \in 1..(Len(groups) + 1)
    /\ pc \in EmailSteps \cup {"merge"} => group_i \in 1..Len(groups)
    /\ pc \in EmailSteps => email_j \in 1..Len(group_emails)
    /\ pc = "generate" =>
          generate_pdf(files, html_content, raw_pdf, images_dir) # {}
    /\ pc = "stamp" =>
          add_continuation_headers(files, raw_pdf, final_pdf, email.subject) # {}
    /\ pc = "merge" /\ email_pdfs # <<>> =>
          merge_pdfs(files, email_pdfs, pdf_path) # {}

\* C1: once parsing and grouping have succeeded, a step of an email or the
\* merge of a group that raises leaves no exception to the caller: exactly
\* one error string is appended for it and the run goes on with the next
\* email or the next group; the call can always go on until it returns, and
\* the result it returns holds every error recorded.
C1_FailuresAreCaught ==
    /\ [][EmailStepCaught]_vars
    /\ [][MergeStepCaught]_vars
    /\ [](pc \in EmailSteps \cup {"merge", "begin_group"} => StepCanBeTaken)
    /\ [](pc = "returned" /\ groups # <<>> => result.errors = errors)

\* A returned run in which the first email of a group of two failed at the
\* PDF step, the second went through and the group's PDF was written.
C1_Witness ==
    /\ pc = "returned"
    /\ Len(groups) = 1
    /\ Len(groups[1].emails) = 2
    /\ result.errors =
         <<ErrorString("Failed to process email", groups[1].emails[1].subject, <<>>,
                       "RuntimeError")>>
    /\ result.created_files = <<PdfPath(groups[1].key)>>

\* A returned run in which the merge of the first of two groups failed and
\* the second group's PDF was written.
RunWentOnAfterMergeFailure ==
    /\ pc = "returned"
    /\ Len(groups) = 2
    /\ Len(result.errors) = 1
    /\ result.errors[1].text = "Failed to merge PDFs for"
    /\ result.errors[1].group_key = groups[1].key
    /\ result.created_files = <<PdfPath(groups[2].key)>>

\* C2: a call with a strategy other than 'month', 'quarter' and 'year' ends
\* in a return, never in an exception that escapes, and the result reports
\* the failure in its success or errors field.
C2_InvalidStrategyIsReturned ==
    grouping_strategy \notin ValidStrategies =>
        /\ pc # "raised"
        /\ raised = NoException
        /\ pc = "returned" => (~result.success \/ result.errors # <<>>)

ParseFailure(r) ==
    /\ ~r.success
    /\ r.errors # <<>>
    /\ r.errors[1].text = "Failed to parse mbox files"

\* A listed path whose file parse_mbox turns into one email or more.
ParsesToEmails(mbox_path) ==
    LET r == ParseMbox(mbox_path) IN r.exc = NoException /\ r.value # <<>>

\* C3: the call returns the parse-failure result only when not one of the
\* listed files can be parsed; when a file parses to one email or more the
\* run goes on to grouping.
C3_ParseFailureOnlyWhenAllFail ==
    (pc = "returned" /\ ParseFailure(result)) =>
        \A f \in 1..Len(mbox_paths) : ~ParsesToEmails(mbox_paths[f])

(***************************************************************************)
(* C11: one outcome per group.                                             *)
(***************************************************************************)
\* The entries of errors that name a group.
RECURSIVE GroupErrors(_)
GroupErrors(errs) ==
    IF errs = <<>> THEN 0
    ELSE (IF Head(errs).group_key # <<>> THEN 1 ELSE 0) + GroupErrors(Tail(errs))

\* The group key in the path <output_dir>/<group-key>.pdf.
KeyOfPath(path) == SubSeq(path[Len(path)], 1, Len(path[Len(path)]) - 4)

AscendingKeys(ks) == \A i \in 1..(Len(ks) - 1) : StrLess(ks[i], ks[i + 1])

\* The end of a group: the file is written whole and its path listed, with
\* no error; or one error that names the group is added and no path listed,
\* the merge being skipped when no email of the group gave a PDF.
GroupOutcome ==
    pc = "merge" =>
        /\ OnToNextGroup
        /\ \/ /\ created_files' = Append(created_files, Join(output_dir,
                                      group_key \o <<".","p","d","f">>))
              /\ errors' = errors
              /\ email_pdfs # <<>>
              /\ Exists(files', pdf_path)
              /\ files'[pdf_path].kind = "pdf" /\ files'[pdf_path].complete
           \/ /\ created_files' = created_files
              /\ OneErrorAppended
              /\ errors'[Len(errors')].group_key = group_key
              /\ errors'[Len(errors')].text =
                    IF email_pdfs = <<>> THEN "No emails processed for group"
                    ELSE "Failed to merge PDFs for"
              /\ email_pdfs = <<>> => (Exists(files', pdf_path) <=> Exists(files, pdf_path))

\* Nothing but the end of a group lists a file or adds an error that names
\* a group.
OnlyGroupEndCounts ==
    pc # "merge" =>
        /\ created_files' = created_files
        /\ GroupErrors(errors') = GroupErrors(errors)

RECURSIVE PagesAhead(_, _, _)
PagesAhead(fs, paths, n) ==
    IF n = 0 THEN 0
    ELSE PagesAhead(fs, paths, n - 1) + Len(fs[paths[n]].pages)

\* pages is the pages of the listed files one after the other.
IsConcatenation(pages, fs, paths) ==
    /\ Len(pages) = PagesAhead(fs, paths, Len(paths))
    /\ \A n \in 1..Len(paths) : \A m \in 1..Len(fs[paths[n]].pages) :
          pages[PagesAhead(fs, paths, n - 1) + m] = fs[paths[n]].pages[m]

\* The position in the group of the email a per-email PDF belongs to.
EmailOfPdf(path) ==
    CHOOSE j \in 1..Len(group_emails) : path = Join(temp_path, FinalPdfName(j - 1))

\* A step of an email adds its stamped PDF to email_pdfs when stamping, the
\* last step, succeeds; a step ahead of it that succeeds leads to the next
\* step; a step that fails adds an error and nothing else.
EmailContributes ==
    pc \in EmailSteps =>
        \/ /\ pc = "stamp"
           /\ errors' = errors
           /\ email_pdfs' = Append(email_pdfs, final_pdf)
           /\ files'[final_pdf].complete
           /\ Len(files'[final_pdf].pages) = Len(files[raw_pdf].pages)
           /\ \A m \in 1..Len(files'[final_pdf].pages) :
                 /\ files'[final_pdf].pages[m].source = email.subject
                 /\ files'[final_pdf].pages[m].number = m
        \/ /\ pc # "stamp"
           /\ pc' = (IF pc = "render" THEN "generate" ELSE "stamp")
           /\ email_j' = email_j
           /\ errors' = errors
           /\ email_pdfs' = email_pdfs
        \/ /\ OneErrorAppended
           /\ OnToNextEmail
           /\ email_pdfs' = email_pdfs

\* The merge of a group puts the pages of the per-email PDFs one after the
\* other, in the order of the emails.
GroupPdfIsConcatenation ==
    pc = "merge" /\ created_files' # created_files =>
        IsConcatenation(files'[pdf_path].pages, files, email_pdfs)

\* C12: the pages of a group PDF are the pages of the stamped per-email
\* PDFs, one after the other in the date-ascending order of the emails, of
\* exactly the emails of the group whose three steps succeeded: an email
\* that failed adds no page, none is left out or repeated, and the page
\* total is the sum of the per-email page counts.
C12_GroupPdfPages ==
    /\ [][EmailContributes]_vars
    /\ [][GroupPdfIsConcatenation]_vars
    /\ [](pc \in EmailSteps \cup {"merge"} =>
            /\ SortedByDate(group_emails)
            /\ \A n \in 1..Len(email_pdfs) :
                  /\ \E j \in 1..Len(group_emails) :
                        email_pdfs[n] = Join(temp_path, FinalPdfName(j - 1))
                  /\ Exists(files, email_pdfs[n]) /\ files[email_pdfs[n]].complete
            /\ \A n \in 1..(Len(email_pdfs) - 1) :
                  EmailOfPdf(email_pdfs[n]) < EmailOfPdf(email_pdfs[n + 1]))

\* A returned run over one group of two emails that both went through: the
\* group PDF holds the two pages of the first, the second of them stamped,
\* and behind them the page of the second.
C12_Witness ==
    /\ pc = "returned"
    /\ Len(groups) = 1
    /\ Len(groups[1].emails) = 2
    /\ groups[1].emails[1].subject # groups[1].emails[2].subject
    /\ result.errors = <<>>
    /\ LET pages == files[PdfPath(groups[1].key)].pages
       IN  /\ Len(pages) = 3
           /\ pages[1] = Page(groups[1].emails[1].subject, 1)
           /\ pages[2].source = groups[1].emails[1].subject
           /\ pages[2].overlays # <<>>
           /\ pages[3] = Page(groups[1].emails[2].subject, 1)

(***************************************************************************)
(* C13: the success flag and the count of PDFs.                            *)
(***************************************************************************)
\* The statement for every result returned.
C13_SuccessIffPdfsCreated ==
    pc = "returned" =>
        /\ result.success <=> result.pdfs_created > 0
        /\ result.pdfs_created = Len(result.created_files)

\* C13: in the ConversionResult of a run that found an email, success is
\* true exactly when pdfs_created is greater than zero; the result returned
\* when the files hold no email has success true and pdfs_created zero, the
\* result returned when parsing failed has success false; and in every
\* result pdfs_created is the length of created_files.
C13_SuccessIffPdfsCreatedWhenEmailsFound ==
    pc = "returned" =>
        /\ result.pdfs_created = Len(result.created_files)
        /\ emails # <<>> => (result.success <=> result.pdfs_created > 0)
        /\ emails = <<>> =>
              /\ result.pdfs_created = 0
              /\ result.success <=>
                    result.errors[1].text = "No emails found in the provided mbox files"

\* A returned run that found emails and wrote no PDF: success is false.
C13_Witness ==
    /\ pc = "returned"
    /\ emails # <<>>
    /\ result.pdfs_created = 0
    /\ result.created_files = <<>>
    /\ ~result.success

\* The early return for files without an email: success with no PDF.
NoEmailsFoundReturned ==
    /\ pc = "returned"
    /\ emails = <<>>
    /\ result.success
    /\ result.pdfs_created = 0

(***************************************************************************)
(* C14: emails_processed.                                                  *)
(***************************************************************************)
\* C14: in the result of a run that reaches grouping, emails_processed is
\* the length of the de-duplicated sequence of emails, which no later step
\* changes: no failure of an email, no group without a PDF and no failed
\* merge lowers it.
C14_EmailsProcessedIsDedupCount ==
    /\ [][pc # "parse" => emails' = emails]_vars
    /\ [](pc = "returned" /\ emails # <<>> =>
            /\ result.emails_processed = Len(emails)
            /\ emails = MergeAndDeduplicate(mbox_paths).value)

\* A returned run that counts two emails processed and wrote one PDF, which
\* shows one of them: the other failed.
C14_Witness ==
    /\ pc = "returned"
    /\ result.emails_processed = 2
    /\ result.pdfs_created = 1
    /\ Len(groups) = 1
    /\ \E n \in 1..Len(result.errors) :
          result.errors[n].text = "Failed to process email"
    /\ \A m \in 1..Len(files[result.created_files[1]].pages) :
          files[result.created_files[1]].pages[m].source = groups[1].emails[2].subject
    /\ groups[1].emails[1].subject # groups[1].emails[2].subject

(***************************************************************************)
(* C15: the attachment-error records.                                      *)
(***************************************************************************)
\* The renderer render_attachment selects for the attachment raises.
RendererFails(a) == Renderer(Dispatch(Lower(a.mime_type), a.filename), a).exc # NoException

\* The record expected for one attachment, or none.
ExpectedRecord(e, a) ==
    IF RendererFails(a)
    THEN <<[email_subject |-> e.subject, attachment_filename |-> a.filename,
            mime_type |-> a.mime_type, error_type |-> "rendering_failed",
            error_message |->
               <<Renderer(Dispatch(Lower(a.mime_type), a.filename), a).exc>>]>>
    ELSE IF Dispatch(Lower(a.mime_type), a.filename) = "reference"
    THEN <<[email_subject |-> e.subject, attachment_filename |-> a.filename,
            mime_type |-> a.mime_type, error_type |-> "unsupported_type",
            error_message |-> <<>>]>>
    ELSE <<>>

RECURSIVE ExpectedRecords(_, _)
ExpectedRecords(e, n) ==
    IF n = 0 THEN <<>>
    ELSE ExpectedRecords(e, n - 1) \o ExpectedRecord(e, e.attachments[n])

\* The rendering of an email either fails, with an error and no record, or
\* adds the records of its attachments in their order and goes on to the
\* PDF of the same email.
RenderStepRecords ==
    pc = "render" =>
        \/ /\ OneErrorAppended
           /\ attachment_errors' = attachment_errors
        \/ /\ errors' = errors
           /\ pc' = "generate"
           /\ group_i' = group_i /\ email_j' = email_j
           /\ attachment_errors' =
                 attachment_errors \o ExpectedRecords(email, Len(email.attachments))

\* No other step adds, drops or changes a record.
RecordsAreKept == pc # "render" => attachment_errors' = attachment_errors

ContentTypes == {"html", "text", "table", "image", "docx", "xlsx", "reference"}

\* The attachment as it was handed to the call: the call assigns the three
\* fields of the rendering and no other.
Handed(a) ==
    [a EXCEPT !.rendered_content = <<>>, !.content_type = <<>>, !.error = <<>>]

SameIgnoringCase(s, u) ==
    /\ Len(s) = Len(u)
    /\ \A k \in 1..Len(s) : LowerChar(s[k]) = LowerChar(u[k])

HasExtension(filename, ext) ==
    /\ Len(filename) >= Len(ext)
    /\ SameIgnoringCase(SubSeq(filename, Len(filename) - Len(ext) + 1, Len(filename)),
                        ext)

HasPrefix(mime_type, prefix) ==
    /\ Len(mime_type) >= Len(prefix)
    /\ SameIgnoringCase(SubSeq(mime_type, 1, Len(prefix)), prefix)

\* The seven rules, in their order.
Rule(n, mime_type, filename) ==
    CASE n = 1 -> SameIgnoringCase(mime_type, MimeTextCsv)
                  \/ HasExtension(filename, DotCsv)
      [] n = 2 -> SameIgnoringCase(mime_type, MimeTextHtml)
                  \/ HasExtension(filename, DotHtml) \/ HasExtension(filename, DotHtm)
      [] n = 3 -> SameIgnoringCase(mime_type, MimeDocx)
                  \/ HasExtension(filename, DotDocx)
      [] n = 4 -> SameIgnoringCase(mime_type, MimeXlsx)
                  \/ HasExtension(filename, DotXlsx)
      [] n = 5 -> HasPrefix(mime_type, TextSlash)
      [] n = 6 -> HasPrefix(mime_type, ImageSlash)
      [] OTHER -> TRUE

RuleTag(n) == <<"table", "html", "docx", "xlsx", "text", "image", "reference">>[n]

FirstRule(mime_type, filename) ==
    CHOOSE n \in 1..7 :
        /\ Rule(n, mime_type, filename)
        /\ \A m \in 1..(n - 1) : ~Rule(m, mime_type, filename)

AudioRenderedAsReference ==
    /\ pc = "returned"
    /\ attachment.mime_type = MimeAudioMpeg
    /\ attachment.filename = NameMeetingMp3
    /\ attachment.content_type = <<"reference">>
    /\ attachment.error = <<>>

(***************************************************************************)
(* C18: the values reported to the progress callback.                      *)
(***************************************************************************)
\* C18: at the head of group i of G the callback is called with total 100
\* and current 20 + floor(75 * i / G), a value in 20..94.
C18_GroupProgressValue ==
    pc = "returned" =>
        /\ Len(progress) = 1
        /\ progress[1].total = 100
        /\ progress[1].current \in 20..94
        /\ progress[1].current = 20 + ((75 * (group_i - 1)) \div total_groups)

\* The report at the head of the twelfth of fifteen groups.
TwelfthOfFifteenReported ==
    /\ pc = "returned"
    /\ total_groups = 15
    /\ group_i = 12
    /\ progress = <<ProgressCall(74)>>

(***************************************************************************)
(* C19: generate_pdf and the file at output_path.                          *)
(***************************************************************************)
\* C19: generate_pdf returns with a complete PDF at output_path or raises;
\* when it raises, no partial file is left at output_path.
C19_CompleteFileOrNone ==
    /\ pc = "returned" =>
          /\ Exists(files, output_path)
          /\ files[output_path].kind = "pdf"
          /\ files[output_path].complete
          /\ files[output_path].pages # <<>>
    /\ pc = "raised" =>
          ~(Exists(files, output_path) /\ ~files[output_path].complete)

\* The call has raised RuntimeError for the errors the backend reported,
\* and a file that is no complete PDF lies at output_path.
PartialFileLeftBehind ==
    /\ pc = "raised"
    /\ raised = "RuntimeError"
    /\ Exists(files, output_path)
    /\ ~files[output_path].complete

NoPageStamped ==
    /\ pc = "returned"
    /\ files[input_pdf].pages = <<>>
    /\ files[output_path].pages = <<>>

(***************************************************************************)
(* classify_attachment_error (src/src/error_handling.py).  An exception is *)
(* its class and the text str() gives for it; isinstance follows the       *)
(* classes Python derives the class from.                                  *)
(***************************************************************************)
Exception(class, text) == [class |-> class, text |-> text]

\* The classes an exception of the class is an instance of.
Mro(class) ==
    CASE class = "UnicodeDecodeError"  -> {"UnicodeDecodeError", "UnicodeError", "ValueError"}
      [] class = "UnicodeEncodeError"  -> {"UnicodeEncodeError", "UnicodeError", "ValueError"}
      [] class = "ModuleNotFoundError" -> {"ModuleNotFoundError", "ImportError"}
      [] class = "FileNotFoundError"   -> {"FileNotFoundError", "OSError"}
      [] class = "PermissionError"     -> {"PermissionError", "OSError"}
      [] OTHER                         -> {class}

\* isinstance(e, classes); IOError is another name of OSError.
IsInstance(e, classes) == Mro(e.class) \cap classes # {}

UNSUPPORTED_MIME_PREFIXES ==
    { <<"a","u","d","i","o","/">>, <<"v","i","d","e","o","/">> }

UNSUPPORTED_MIME_TYPES ==
    { <<"a","p","p","l","i","c","a","t","i","o","n","/","x","-","z","i","p",
      "-","c","o","m","p","r","e","s","s","e","d">>,
      <<"a","p","p","l","i","c","a","t","i","o","n","/","z","i","p">>,
      <<"a","p","p","l","i","c","a","t","i","o","n","/","x","-","r","a","r",
      "-","c","o","m","p","r","e","s","s","e","d">>,
      <<"a","p","p","l","i","c","a","t","i","o","n","/","x","-","7","z","-",
      "c","o","m","p","r","e","s","s","e","d">>,
      <<"a","p","p","l","i","c","a","t","i","o","n","/","x","-","t","a","r">>,
      <<"a","p","p","l","i","c","a","t","i","o","n","/","g","z","i","p">>,
      <<"a","p","p","l","i","c","a","t","i","o","n","/","x","-","e","x","e",
      "c","u","t","a","b","l","e">>,
      <<"a","p","p","l","i","c","a","t","i","o","n","/","x","-","m","s","d",
      "o","w","n","l","o","a","d">>,
      <<"a","p","p","l","i","c","a","t","i","o","n","/","x","-","s","h","o",
      "c","k","w","a","v","e","-","f","l","a","s","h">>,
      <<"a","p","p","l","i","c","a","t","i","o","n","/","j","a","v","a","-",
      "a","r","c","h","i","v","e">> }

UNSUPPORTED_EXTENSIONS ==
    { <<".","e","x","e">>, <<".","d","l","l">>, <<".","s","o">>, <<".","d","y","l","i","b">>,
      <<".","z","i","p">>, <<".","r","a","r">>, <<".","7","z">>, <<".","t","a","r">>, <<".","g","z">>, <<".","b","z","2">>,
      <<".","m","p","3">>, <<".","w","a","v">>, <<".","f","l","a","c">>, <<".","a","a","c">>, <<".","o","g","g">>, <<".","w","m","a">>,
      <<".","m","p","4">>, <<".","a","v","i">>, <<".","m","o","v">>, <<".","m","k","v">>, <<".","w","m","v">>, <<".","f","l","v">>,
      <<".","s","w","f">>, <<".","j","a","r">> }

\* is_unsupported_file_type(mime_type, filename)
is_unsupported_file_type(mime, filename) ==
    \/ \E prefix \in UNSUPPORTED_MIME_PREFIXES : StartsWith(Lower(mime), prefix)
    \/ Lower(mime) \in UNSUPPORTED_MIME_TYPES
    \/ \E ext \in UNSUPPORTED_EXTENSIONS : EndsWith(Lower(filename), ext)

\* The keywords looked for in the lower-cased text of the exception.
KwPassword == <<"p","a","s","s","w","o","r","d">>
KwEncrypted == <<"e","n","c","r","y","p","t","e","d">>
KwCorrupt == <<"c","o","r","r","u","p","t">>
KwInvalid == <<"i","n","v","a","l","i","d">>
KwNotSupported == <<"n","o","t"," ","s","u","p","p","o","r","t","e","d">>
KwUnsupported == <<"u","n","s","u","p","p","o","r","t","e","d">>
KwEmpty == <<"e","m","p","t","y">>
KwNoData == <<"n","o"," ","d","a","t","a">>

\* classify_attachment_error(original_exception, attachment_filename, mime_type)
classify_attachment_error(e, filename, mime) ==
    LET exception_msg == Lower(e.text)
    IN  IF IsInstance(e, {"UnicodeDecodeError"}) THEN "encoding_error"
        ELSE IF IsInstance(e, {"ImportError"}) THEN "missing_library"
        ELSE IF IsInstance(e, {"FileNotFoundError", "OSError"}) THEN "corrupted"
        ELSE IF IsInstance(e, {"ValueError", "TypeError"})
             THEN IF Contains(exception_msg, KwPassword) \/ Contains(exception_msg, KwEncrypted)
                  THEN "password_protected"
                  ELSE IF Contains(exception_msg, KwEmpty) \/ Contains(exception_msg, KwNoData)
                  THEN "empty_file"
                  ELSE IF Contains(exception_msg, KwNotSupported)
                          \/ Contains(exception_msg, KwUnsupported)
                  THEN "unsupported_variant"
                  ELSE "corrupted"
        ELSE IF IsInstance(e, {"MemoryError"}) THEN "too_large"
        ELSE IF Contains(exception_msg, KwPassword) \/ Contains(exception_msg, KwEncrypted)
             THEN "password_protected"
        ELSE IF Contains(exception_msg, KwCorrupt) \/ Contains(exception_msg, KwInvalid)
             THEN "corrupted"
        ELSE IF Contains(exception_msg, KwNotSupported) \/ Contains(exception_msg, KwUnsupported)
             THEN "unsupported_variant"
        ELSE IF is_unsupported_file_type(mime, filename) THEN "unsupported"
        ELSE "unknown"

\* The exceptions and attachments the classification is applied to.
ExceptionClasses ==
    { "UnicodeDecodeError", "UnicodeEncodeError", "ImportError", "ModuleNotFoundError",
      "FileNotFoundError", "PermissionError", "OSError", "ValueError", "TypeError",
      "MemoryError", "RuntimeError", "Exception" }

ExceptionTexts ==
    { <<"F","i","l","e"," ","i","s"," ","p","a","s","s","w","o","r","d"," ",
      "p","r","o","t","e","c","t","e","d">>,
      <<"E","n","c","r","y","p","t","e","d"," ","c","o","n","t","e","n","t">>,
      <<"C","o","r","r","u","p","t"," ","f","i","l","e"," ","h","e","a","d",
      "e","r">>,
      <<"I","n","v","a","l","i","d"," ","a","n","d"," ","e","m","p","t","y">>,
      <<"F","o","r","m","a","t"," ","n","o","t"," ","s","u","p","p","o","r",
      "t","e","d">>,
      <<"U","n","s","u","p","p","o","r","t","e","d"," ","v","a","r","i","a",
      "n","t">>,
      <<"E","m","p","t","y"," ","f","i","l","e"," ","-"," ","n","o"," ","d",
      "a","t","a">>,
      <<"N","o"," ","d","a","t","a"," ","i","n"," ","s","h","e","e","t">>,
      <<"P","e","r","m","i","s","s","i","o","n"," ","d","e","n","i","e","d">>,
      <<"S","o","m","e","t","h","i","n","g"," ","w","e","n","t"," ","w","r",
      "o","n","g">> }

NameArchiveZip == <<"A","r","c","h","i","v","e",".","Z","I","P">>

MimeApplicationZip == <<"a","p","p","l","i","c","a","t","i","o","n","/","z","i","p">>

ClassifiedAttachments ==
    { Attachment(NameNotesTxt, MimeTextPlain, 120, Bytes("content", 120)),
      Attachment(NameMeetingMp3, MimeAudioMpeg, 1024000, Bytes("content", 1024000)),
      Attachment(NameArchiveZip, MimeOctetStream, 2048, Bytes("content", 2048)),
      Attachment(NameNotesTxt, MimeApplicationZip, 2048, Bytes("content", 2048)) }

NoClassification == <<>>

ClassifyInit ==
    /\ RunIdle
    /\ PipelineIdle
    /\ ExtractIdle
    /\ WizardIdle
    /\ original_exception \in
           { Exception(c, t) : c \in ExceptionClasses, t \in ExceptionTexts }
    /\ attachment \in ClassifiedAttachments
    /\ classification = NoClassification
    /\ html_content = NoHtml
    /\ input_pdf = NoPath
    /\ output_path = NoPath
    /\ image_temp_dir = NoPath
    /\ subject = <<>>
    /\ files = NoFiles
    /\ raised = NoException
    /\ pc = "call"

\* One call of classify_attachment_error(original_exception,
\* attachment.filename, attachment.mime_type).
ClassifyAttachmentErrorCall ==
    /\ pc = "call"
    /\ classification' = classify_attachment_error(original_exception,
                             attachment.filename, attachment.mime_type)
    /\ pc' = "returned"
    /\ UNCHANGED <<original_exception, raised>>
    /\ UNCHANGED <<extractVars, wizardVars>>
    /\ UNCHANGED callVars
    /\ UNCHANGED pipelineVars
    /\ UNCHANGED runVars
    /\ UNCHANGED files

ClassifyNext == ClassifyAttachmentErrorCall

SpecClassify == ClassifyInit /\ [][ClassifyNext]_vars

(***************************************************************************)
(* C21                                                                     *)
(***************************************************************************)
ErrorCategories ==
    { "corrupted", "unsupported", "too_large", "encoding_error", "missing_library",
      "unsupported_variant", "password_protected", "empty_file", "unknown" }

\* The category the stated priority gives: the class of the exception
\* decides for decode, import, file and memory errors; the keywords decide
\* for every other exception, in the order password or encrypted, corrupt
\* or invalid, not supported or unsupported, empty or no data; then the
\* list of unsupported types.
StatedCategory(e, filename, mime) ==
    LET text == Lower(e.text)
        Has(kw) == Contains(text, kw)
    IN  CASE IsInstance(e, {"UnicodeDecodeError"}) -> "encoding_error"
          [] IsInstance(e, {"ImportError"}) -> "missing_library"
          [] IsInstance(e, {"OSError"}) -> "corrupted"
          [] IsInstance(e, {"MemoryError"}) -> "too_large"
          [] OTHER ->
               CASE Has(KwPassword) \/ Has(KwEncrypted) -> "password_protected"
                 [] OTHER ->
               CASE Has(KwCorrupt) \/ Has(KwInvalid) -> "corrupted"
                 [] OTHER ->
               CASE Has(KwNotSupported) \/ Has(KwUnsupported) -> "unsupported_variant"
                 [] OTHER ->
               CASE Has(KwEmpty) \/ Has(KwNoData) -> "empty_file"
                 [] OTHER ->
               IF is_unsupported_file_type(mime, filename) THEN "unsupported"
               ELSE "unknown"

\* C21: every call of classify_attachment_error returns one of the nine
\* categories, and the one the stated priority gives for the exception, its
\* text and the attachment.
C21_ClassificationFollowsPriority ==
    pc = "returned" =>
        /\ classification \in ErrorCategories
        /\ classification = StatedCategory(original_exception, attachment.filename,
                                           attachment.mime_type)

\* The part of C21 that holds: the result is one of the nine categories, the
\* four classes decide as stated, and the keywords of an exception that is
\* neither a ValueError nor a TypeError decide as stated but for empty and
\* no data, which are not looked for.
C21_TotalAndClassesDecide ==
    pc = "returned" =>
        /\ classification \in ErrorCategories
        /\ \/ IsInstance(original_exception, {"ValueError", "TypeError"})
              /\ ~IsInstance(original_exception, {"UnicodeDecodeError"})
           \/ LET stated == StatedCategory(original_exception, attachment.filename,
                                           attachment.mime_type)
              IN  IF stated = "empty_file"
                  THEN classification \in {"unsupported", "unknown"}
                  ELSE classification = stated

\* A RuntimeError whose text says the file is empty has been classified as
\* unknown.
EmptyFileClassifiedUnknown ==
    /\ pc = "returned"
    /\ original_exception.class = "RuntimeError"
    /\ Contains(Lower(original_exception.text), KwEmpty)
    /\ classification = "unknown"

(***************************************************************************)
(* C22                                                                     *)
(***************************************************************************)
\* d1 <= d2 for two aware datetimes: Python compares their instants.
DateLeq(d1, d2) == Instant(d1) <= Instant(d2)

\* Every aware email of an earlier bucket is not later than every aware
\* email of a later bucket.
BucketsInDateOrder(gs) ==
    \A i, j \in 1..Len(gs) :
        i < j =>
            \A m \in 1..Len(gs[i].emails), n \in 1..Len(gs[j].emails) :
                (gs[i].emails[m].date.aware /\ gs[j].emails[n].date.aware)
                    => DateLeq(gs[i].emails[m].date, gs[j].emails[n].date)

\* C22: in the mapping group_emails_by_date returns, under every strategy,
\* each email of a bucket with a smaller key has a date less than or equal
\* to that of each email of a bucket with a larger key, whatever the
\* timezone offsets of the emails.
C22_BucketsInDateOrder ==
    (pc = "returned" /\ grouping_strategy \in ValidStrategies)
        => BucketsInDateOrder(groups)

\* The emails carry one and the same timezone offset.
SameOffset(es) ==
    \A i, j \in 1..Len(es) : es[i].date.aware /\ es[i].date.tz = es[j].date.tz

\* What holds of C22: the buckets are in date order when the emails carry
\* one and the same offset.
BucketsInDateOrderForOneOffset ==
    (pc = "returned" /\ grouping_strategy \in ValidStrategies /\ SameOffset(emails))
        => BucketsInDateOrder(groups)

\* Emails of one offset have been put into several buckets.
OneOffsetSeveralBuckets ==
    /\ pc = "returned"
    /\ SameOffset(emails)
    /\ Len(groups) >= 2

\* The email of 31 January 23:00 -0800 is in the bucket of January and the
\* email of 1 February 01:00 +0900, fifteen hours earlier, in the bucket of
\* February.
LaterEmailInEarlierBucket ==
    /\ pc = "returned"
    /\ grouping_strategy = "month"
    /\ Len(groups) = 2
    /\ \E m \in 1..Len(groups[1].emails) : groups[1].emails[m].date = Jan31West
    /\ \E n \in 1..Len(groups[2].emails) : groups[2].emails[n].date = Feb01East

(***************************************************************************)
(* C23                                                                     *)
(***************************************************************************)
\* The paths below the directory for temporary files: the working
\* directories of the groups and all they hold.
WorkPaths == { p \in DOMAIN files : Len(p) > Len(WorkDir) /\ StartsWith(p, WorkDir) }

\* The working directories that exist.
WorkingDirectories == { p \in WorkPaths : Parent(p) = WorkDir }

\* The per-email PDFs of the group are there, written to their end, in the
\* group's working directory.
EmailPdfsAreThere ==
    \A n \in 1..Len(email_pdfs) :
        /\ Parent(email_pdfs[n]) = temp_path
        /\ Exists(files, email_pdfs[n])
        /\ files[email_pdfs[n]].kind = "pdf"
        /\ files[email_pdfs[n]].complete

\* C23: during convert_mbox_to_pdfs at most one working directory exists;
\* the directory of the group at hand exists from ahead of its first
\* per-email PDF up to its merge, with all its per-email PDFs; and nothing
\* is left of it, of the intermediate PDFs or of the extracted images when
\* the next group starts and when the function returns, whether a
\* per-email step failed, the merge failed or the group gave no PDF.
C23_OneWorkingDirectory ==
    /\ Cardinality(WorkingDirectories) <= 1
    /\ pc \in {"render", "generate", "stamp", "merge"} =>
          /\ IsDir(files, temp_path)
          /\ WorkingDirectories = {temp_path}
          /\ EmailPdfsAreThere
    /\ pc \in {"parse", "group", "begin_group", "returned", "raised"} =>
          WorkPaths = {}

\* The second group is at hand, after a first group one of whose emails
\* failed behind its extracted image and whose merge failed, and its
\* directory holds a per-email PDF.
C23_Witness ==
    /\ pc = "merge"
    /\ group_i = 2
    /\ email_pdfs # <<>>
    /\ \E n \in 1..Len(errors) : errors[n].text = "Failed to merge PDFs for"

\* A group that gave no PDF is behind, and the run has returned.
ReturnedAfterGroupWithoutPdf ==
    /\ pc = "returned"
    /\ \E n \in 1..Len(errors) : errors[n].text = "No emails processed for group"

(***************************************************************************)
(* C24                                                                     *)
(***************************************************************************)
\* The extension stated for the MIME type of a data URI.
StatedExt(mime) ==
    IF Contains(mime, <<"j","p","e","g">>) \/ Contains(mime, <<"j","p","g">>) THEN <<".","j","p","g">>
    ELSE IF Contains(mime, <<"g","i","f">>) THEN <<".","g","i","f">>
    ELSE IF Contains(mime, <<"w","e","b","p">>) THEN <<".","w","e","b","p">>
    ELSE <<".","p","n","g">>

\* The URIs of the document generate_pdf hands to the PDF backend.
UrisHandedToBackend ==
    ReplaceDataUris(Mkdir(NoFiles, image_temp_dir), html_content.uris,
                    image_temp_dir, 0).uris

\* The n-th URI of the document is a data URI that decodes.
IsEmbeddedData(n) ==
    html_content.uris[n].scheme = "data" /\ html_content.uris[n].decodes

\* C24: after a call of generate_pdf with an image directory, every data
\* URI of the HTML, that of the image renderer (data:<mime>;base64,<data>)
\* among them, has been written to a file image_<n><ext> of its own in the
\* directory and stands in the document handed to the backend as the
\* reference to that file; the document holds no data URI.
C24_DataUrisBecomeFiles ==
    (pc \in {"returned", "raised"} /\ image_temp_dir # NoPath) =>
        \A n \in 1..Len(html_content.uris) :
            IsEmbeddedData(n) =>
                /\ UrisHandedToBackend[n].scheme = "file"
                /\ Parent(UrisHandedToBackend[n].path) = image_temp_dir
                /\ Exists(files, UrisHandedToBackend[n].path)
                /\ files[UrisHandedToBackend[n].path].kind = "image"
                /\ EndsWith(UrisHandedToBackend[n].path[Len(image_temp_dir) + 1],
                            StatedExt(html_content.uris[n].mime))
                /\ \A m \in 1..Len(html_content.uris) :
                      (m # n /\ IsEmbeddedData(m))
                          => UrisHandedToBackend[m].path # UrisHandedToBackend[n].path

\* What holds of C24: a data URI that decodes and has a parameter ahead of
\* base64 (data:<mime>;<param>;base64,<data>) is written to a file of its
\* own and replaced by the reference to it.
UrisWithTwoParametersBecomeFiles ==
    (pc \in {"returned", "raised"} /\ image_temp_dir # NoPath) =>
        \A n \in 1..Len(html_content.uris) :
            (IsEmbeddedData(n) /\ Len(html_content.uris[n].params) >= 2) =>
                /\ UrisHandedToBackend[n].scheme = "file"
                /\ Exists(files, UrisHandedToBackend[n].path)
                /\ files[UrisHandedToBackend[n].path].kind = "image"
                /\ EndsWith(UrisHandedToBackend[n].path[Len(image_temp_dir) + 1],
                            StatedExt(html_content.uris[n].mime))

\* The call has returned and the URI of the image renderer is handed to the
\* backend as it was, while the images directory holds no file.
RendererUriLeftInDocument ==
    /\ pc = "returned"
    /\ image_temp_dir # NoPath
    /\ html_content.uris = <<DataUri(MimeImagePng, <<Base64>>, TRUE)>>
    /\ UrisHandedToBackend = html_content.uris
    /\ IsDir(files, image_temp_dir)
    /\ ~\E p \in DOMAIN files : Parent(p) = image_temp_dir

(***************************************************************************)
(* parse_mbox on one file.                                                 *)
(***************************************************************************)
SubjectEightBit == <<"8","-","b","i","t"," ","d","a","t","e">>

\* The messages of the file: those of the pipeline's mailboxes and one
\* whose Date header holds a byte outside ASCII.
ParseMessagePool ==
    MessagePool \cup { Message(<<"<d>">>, <<<<HeaderObject>>>>, SubjectEightBit, <<>>) }

ParseInit ==
    /\ SideIdle
    /\ RunIdle
    /\ CallIdle
    /\ progress_callback = FALSE
    /\ mbox_paths \in { <<MissingFile>> }
           \cup { <<MboxFile(ms)>> : ms \in SeqsUpTo(ParseMessagePool, MaxParseMessages) }
    /\ grouping_strategy = "month"
    /\ emails = <<>>
    /\ groups = <<>>
    /\ raised = NoException
    /\ date = Jan04
    /\ key = NoKey
    /\ pc = "call"

\* One call of parse_mbox(mbox_paths[0]).
ParseMboxCall ==
    /\ pc = "call"
    /\ UNCHANGED sideVars
    /\ LET r == ParseMbox(mbox_paths[1])
       IN  /\ raised' = r.exc
           /\ emails' = r.value
           /\ pc' = IF r.exc = NoException THEN "returned" ELSE "raised"
    /\ UNCHANGED <<mbox_paths, grouping_strategy, groups, date, key>>
    /\ UNCHANGED runVars
    /\ UNCHANGED callVars
    /\ UNCHANGED <<progress_callback, files>>

ParseNext == ParseMboxCall

SpecParse == ParseInit /\ [][ParseNext]_vars

(***************************************************************************)
(* C25                                                                     *)
(***************************************************************************)
\* The Date header of the message is there and is the text of a date.
DateParses(m) ==
    /\ m.date # <<>>
    /\ m.date[1] # <<>>
    /\ m.date[1] # <<HeaderObject>>

\* The Email of a message whose date parses.
EmailOf(m) ==
    Email(Get(m.message_id, ""), m.date[1][1], m.subject, ExtractAttachments(m.parts))

\* The emails of the messages of the file whose date parses.
EmailsOfDated(messages) ==
    LET dated == SelectSeq(messages, DateParses)
    IN  [k \in 1..Len(dated) |-> EmailOf(dated[k])]

\* es holds the elements of expected, each as often as expected holds it.
SameEmails(es, expected) ==
    /\ Len(es) = Len(expected)
    /\ \A k \in 1..Len(expected) :
          Occurrences(es, expected[k]) = Occurrences(expected, expected[k])

\* C25: parse_mbox on a file that exists returns, and what it returns is
\* one Email for every message whose Date header parses and none for any
\* other message; a message whose date is missing or does not parse is
\* dropped without an exception and keeps no other message from being
\* returned.
C25_OneEmailPerDatedMessage ==
    (pc # "call" /\ mbox_paths[1].exists) =>
        /\ pc = "returned"
        /\ raised = NoException
        /\ SameEmails(emails, EmailsOfDated(mbox_paths[1].messages))

\* The messages whose date is not the text of a date have no header, or a
\* header whose value is a text.
UndatedAreTexts(messages) ==
    \A k \in 1..Len(messages) :
        DateParses(messages[k]) \/ Get(messages[k].date, <<>>) = <<>>

\* What holds of C25: when every Date header reads as text and the dates
\* that parse all carry an offset other than -0000, or none does, the call
\* returns one Email for every message whose date parses and none for any
\* other message.
EmailPerDatedMessageForTextDates ==
    (/\ pc # "call"
     /\ mbox_paths[1].exists
     /\ UndatedAreTexts(mbox_paths[1].messages)
     /\ ~MixedAwareness(EmailsOfDated(mbox_paths[1].messages))) =>
        /\ pc = "returned"
        /\ raised = NoException
        /\ SameEmails(emails, EmailsOfDated(mbox_paths[1].messages))

\* A message without a date ahead of a message with one: the second is
\* returned alone.
DatedMessageBehindUndatedReturned ==
    /\ pc = "returned"
    /\ Len(mbox_paths[1].messages) = 2
    /\ ~DateParses(mbox_paths[1].messages[1])
    /\ DateParses(mbox_paths[1].messages[2])
    /\ Len(emails) = 1

\* The call has raised AttributeError on a file whose first message has a
\* Date header with a byte outside ASCII and whose second message has a
\* date that parses.
EightBitDateRaised ==
    /\ pc = "raised"
    /\ raised = "AttributeError"
    /\ Len(mbox_paths[1].messages) = 2
    /\ DateParses(mbox_paths[1].messages[2])

(***************************************************************************)
(* _extract_body_and_attachments.  A message is multipart or not; a        *)
(* multipart message has its parts in walk order, the multipart containers *)
(* among them; a message that is not multipart has a content type and a    *)
(* payload of its own.  A decoded body is the bytes it was decoded from;   *)
(* the empty string is the body of no bytes.                               *)
(***************************************************************************)
MimeMessage(multipart, content_type, payload, parts) ==
    [multipart |-> multipart, content_type |-> content_type, payload |-> payload,
     parts |-> parts]

EmptyString == [decoded |-> Bytes("nothing", 0)]

\* _decode_payload(part)
DecodePayload(part) ==
    IF part.payload = <<>> \/ part.payload[1].len = 0 THEN EmptyString
    ELSE [decoded |-> part.payload[1]]

MultipartSlash == <<"m","u","l","t","i","p","a","r","t","/">>

\* part.get_content_maintype() == 'multipart'
IsContainer(part) == StartsWith(part.content_type, MultipartSlash)

\* The loop over message.walk(), from the values the three locals have.
RECURSIVE WalkParts(_, _, _, _)
WalkParts(parts, text, html, atts) ==
    IF parts = <<>> THEN [body_text |-> text, body_html |-> html, attachments |-> atts]
    ELSE LET part == Head(parts)
         IN  IF IsContainer(part) THEN WalkParts(Tail(parts), text, html, atts)
             ELSE IF part.disposition = "attachment" \/ part.filename # <<>>
             THEN WalkParts(Tail(parts), text, html, atts \o ParseAttachment(part))
             ELSE IF part.content_type = MimeTextPlain /\ text = EmptyString
             THEN WalkParts(Tail(parts), DecodePayload(part), html, atts)
             ELSE IF part.content_type = MimeTextHtml /\ html = <<>>
             THEN WalkParts(Tail(parts), text, <<DecodePayload(part)>>, atts)
             ELSE WalkParts(Tail(parts), text, html, atts)

\* _extract_body_and_attachments(message): body_text, body_html (<<>> for
\* None) and the attachments.
ExtractBodyAndAttachments(m) ==
    IF m.multipart THEN WalkParts(m.parts, EmptyString, <<>>, <<>>)
    ELSE IF m.content_type = MimeTextPlain
    THEN [body_text |-> DecodePayload(m), body_html |-> <<>>, attachments |-> <<>>]
    ELSE IF m.content_type = MimeTextHtml
    THEN [body_text |-> EmptyString, body_html |-> <<DecodePayload(m)>>,
          attachments |-> <<>>]
    ELSE [body_text |-> EmptyString, body_html |-> <<>>, attachments |-> <<>>]

MimeMultipartAlternative == <<"m","u","l","t","i","p","a","r","t","/","a","l","t","e","r","n","a",
      "t","i","v","e">>

\* The parts of the messages: bodies with and without text, a footer, an
\* attached text, a named inline picture, a part whose disposition is
\* written in capitals, and a container.
PartPool ==
    { Part(MimeTextPlain, "", <<>>, <<Bytes("content", 120)>>),
      Part(MimeTextPlain, "", <<>>, <<Bytes("nothing", 0)>>),
      Part(MimeTextPlain, "", <<>>, <<Bytes("footer", 40)>>),
      Part(MimeTextHtml, "", <<>>, <<Bytes("content", 300)>>),
      Part(MimeTextHtml, "", <<>>, <<Bytes("nothing", 0)>>),
      Part(MimeTextPlain, "attachment", <<NameNotesTxt>>, <<Bytes("content", 64)>>),
      Part(MimeImagePng, "inline", <<NameTimelinePng>>, <<Bytes("content", 4096)>>),
      Part(MimeTextPlain, "ATTACHMENT", <<>>, <<Bytes("content", 64)>>),
      Part(MimeMultipartAlternative, "", <<>>, <<>>) }

MimeMessages ==
    { MimeMessage(TRUE, MimeMultipartAlternative, <<>>, ps) :
        ps \in SeqsUpTo(PartPool, MaxParts) }
    \cup { MimeMessage(FALSE, t, <<b>>, <<>>) :
             t \in {MimeTextPlain, MimeTextHtml, MimeImagePng},
             b \in {Bytes("content", 120), Bytes("nothing", 0)} }

ExtractInit ==
    /\ RunIdle
    /\ CallIdle
    /\ PipelineIdle
    /\ ClassifyIdle
    /\ WizardIdle
    /\ mime_message \in MimeMessages
    /\ body_text = <<>>
    /\ body_html = <<>>
    /\ attachment_list = <<>>
    /\ raised = NoException
    /\ pc = "call"

\* One call of _extract_body_and_attachments(mime_message).
ExtractBodyAndAttachmentsCall ==
    /\ pc = "call"
    /\ LET r == ExtractBodyAndAttachments(mime_message)
       IN  /\ body_text' = r.body_text
           /\ body_html' = r.body_html
           /\ attachment_list' = r.attachments
    /\ pc' = "returned"
    /\ UNCHANGED <<mime_message, raised, files>>
    /\ UNCHANGED <<classifyVars, wizardVars>>
    /\ UNCHANGED callVars
    /\ UNCHANGED pipelineVars
    /\ UNCHANGED runVars

ExtractNext == ExtractBodyAndAttachmentsCall

SpecExtract == ExtractInit /\ [][ExtractNext]_vars

(***************************************************************************)
(* C26                                                                     *)
(***************************************************************************)
\* The part carries an attachment disposition (the value of the header is
\* case-insensitive) or has a filename.
StatedAttachment(part) ==
    part.disposition \in {"attachment", "ATTACHMENT"} \/ part.filename # <<>>

IsLeaf(part) == ~IsContainer(part)

\* The leaf parts that are no attachments, in walk order, of one type.
BodyParts(parts, content_type) ==
    SelectSeq(parts, LAMBDA part :
        IsLeaf(part) /\ ~StatedAttachment(part) /\ part.content_type = content_type)

\* The attachments of the leaf parts that are attachments, in walk order.
RECURSIVE StatedAttachments(_)
StatedAttachments(parts) ==
    IF parts = <<>> THEN <<>>
    ELSE (IF IsLeaf(Head(parts)) /\ StatedAttachment(Head(parts))
          THEN ParseAttachment(Head(parts)) ELSE <<>>)
         \o StatedAttachments(Tail(parts))

\* The text body is the first text/plain body part.
FirstTextWins ==
    LET texts == BodyParts(mime_message.parts, MimeTextPlain)
    IN  body_text = IF texts = <<>> THEN EmptyString ELSE DecodePayload(texts[1])

\* The HTML body is the first text/html body part.
FirstHtmlWins ==
    LET htmls == BodyParts(mime_message.parts, MimeTextHtml)
    IN  body_html = IF htmls = <<>> THEN <<>> ELSE <<DecodePayload(htmls[1])>>

\* C26: for a multipart message, the attachments returned are the leaf
\* parts with an attachment disposition or a filename; of the other leaf
\* parts, in walk order, the first text/plain part is the text body and the
\* first text/html part the HTML body, whatever they hold, an empty one
\* included: no later part of the type takes their place.
C26_FirstBodyPartWins ==
    (pc = "returned" /\ mime_message.multipart) =>
        /\ attachment_list = StatedAttachments(mime_message.parts)
        /\ FirstTextWins
        /\ FirstHtmlWins

\* No part has its disposition in capitals, and the first text/plain body
\* part, if there is one, is not empty.
FirstTextNotEmpty ==
    LET texts == BodyParts(mime_message.parts, MimeTextPlain)
    IN  /\ \A n \in 1..Len(mime_message.parts) :
              mime_message.parts[n].disposition # "ATTACHMENT"
        /\ texts # <<>> => DecodePayload(texts[1]) # EmptyString

\* What holds of C26: the attachments and the HTML body are as stated,
\* whatever the first text/html part holds, and the text body is as stated
\* when the first text/plain body part is not empty.
FirstBodyPartWinsUnlessEmptyText ==
    (pc = "returned" /\ mime_message.multipart /\ FirstTextNotEmpty) =>
        /\ attachment_list = StatedAttachments(mime_message.parts)
        /\ FirstTextWins
        /\ FirstHtmlWins

\* An empty HTML part ahead of one with content, and a text part ahead of
\* the footer: the first of each is the body.
EmptyHtmlKept ==
    /\ pc = "returned"
    /\ mime_message.multipart
    /\ FirstTextNotEmpty
    /\ Len(BodyParts(mime_message.parts, MimeTextHtml)) = 2
    /\ body_html = <<EmptyString>>

\* An empty text/plain part ahead of the footer: the footer is the body.
EmptyTextReplacedByFooter ==
    /\ pc = "returned"
    /\ mime_message.multipart
    /\ Len(mime_message.parts) = 2
    /\ DecodePayload(mime_message.parts[1]) = EmptyString
    /\ mime_message.parts[1].content_type = MimeTextPlain
    /\ body_text = [decoded |-> Bytes("footer", 40)]

(***************************************************************************)
(* C27                                                                     *)
(***************************************************************************)
\* The HTML returned is the reference card.
ReferenceCardReturned ==
    pc = "returned" /\ html_content.class = "attachment-reference"

\* C27: whenever the HTML render_attachment returns is the reference card,
\* the cards of a CSV file without rows, of a document without text and of
\* a spreadsheet without sheets included, the content_type the call leaves
\* on the attachment is 'reference', which is what makes the orchestrator
\* add a record for the attachment to attachment_errors.
C27_ReferenceCardIsTagged ==
    ReferenceCardReturned => attachment.content_type = <<"reference">>

\* What holds of C27: the card of the last branch of the chain and the card
\* shown after a renderer raised are tagged 'reference'.
ReferenceCardIsTaggedUnlessDegraded ==
    (ReferenceCardReturned /\ attachment.raw_content.kind # "nothing")
        => attachment.content_type = <<"reference">>

\* A CSV file without rows is shown as the reference card and tagged
\* 'table', with no error on it.
EmptyCsvCardTaggedTable ==
    /\ ReferenceCardReturned
    /\ attachment.filename = NameDataCsv
    /\ attachment.raw_content.kind = "nothing"
    /\ attachment.content_type = <<"table">>
    /\ attachment.error = <<>>

(***************************************************************************)
(* C28                                                                     *)
(***************************************************************************)
\* The files in the output directory.
OutputFiles == { p \in DOMAIN files : Parent(p) = output_dir }

IsListed(p) == \E n \in 1..Len(result.created_files) : result.created_files[n] = p

\* C28: after convert_mbox_to_pdfs has returned, every file <group-key>.pdf
\* in the output directory, which was empty before the run, is listed in
\* created_files: a group whose merge failed has left no file there, partial
\* or complete.
C28_OutputFilesAreListed ==
    pc = "returned" => \A p \in OutputFiles : IsListed(p)

\* What holds of C28: every file of the output directory that was written
\* to its end is listed, and every file listed is there, written to its
\* end.
CompleteOutputFilesAreListed ==
    pc = "returned" =>
        /\ \A p \in OutputFiles : files[p].complete => IsListed(p)
        /\ \A n \in 1..Len(result.created_files) :
              /\ result.created_files[n] \in OutputFiles
              /\ files[result.created_files[n]].complete

\* The run has returned with one group's file listed and the unfinished
\* file of a group whose merge failed in the output directory.
UnlistedPartialFileLeft ==
    /\ pc = "returned"
    /\ Len(result.created_files) = 1
    /\ \E p \in OutputFiles : ~files[p].complete /\ ~IsListed(p)
    /\ \E n \in 1..Len(result.errors) : result.errors[n].text = "Failed to merge PDFs for"

(***************************************************************************)
(* C29                                                                     *)
(***************************************************************************)
\* The callback was told of the start of parsing.
StartReported == progress # <<>> /\ progress[1].current = 0

\* The last call of the callback reported completion.
CompletionReported == progress # <<>> /\ progress[Len(progress)].current = 100

\* C29: a call of convert_mbox_to_pdfs that has reported the start of
\* parsing (current = 0) has reported completion (current = 100) when it
\* returns its result, on every return path: the parse failure, no emails
\* found, all groups failed, and the normal end.
C29_CompletionReported ==
    (pc = "returned" /\ StartReported) => CompletionReported

\* What holds of C29: a call that found emails and returns a result has
\* reported completion, also when every group failed.
CompletionReportedWhenEmailsFound ==
    (pc = "returned" /\ StartReported /\ emails # <<>>) => CompletionReported

\* A call with a callback has returned with every group failed.
AllGroupsFailedReturned ==
    /\ pc = "returned"
    /\ StartReported
    /\ emails # <<>>
    /\ result.created_files = <<>>

\* A call with a callback has returned 'No emails found' and the callback
\* has had the one call with current = 0.
NoEmailsFoundReportedOnlyStart ==
    /\ pc = "returned"
    /\ result.success
    /\ result.emails_processed = 0
    /\ progress = <<ProgressCall(0)>>

(***************************************************************************)
(* The wizard, MboxToPdfApp (src/src/gui.py).  The handlers of the buttons *)
(* run on the main thread, one at a time; a button can be pressed when the *)
(* screen on display has it and it is enabled.  A dialog for a folder      *)
(* gives a folder or nothing; a folder is known by the .mbox files found   *)
(* below it.  run_conversion runs on a background thread, which hands its  *)
(* callbacks to the main thread through root.after.                        *)
(***************************************************************************)
\* What the model of the pipeline holds, which the wizard leaves alone.
wizardRest ==
    <<mbox_paths, progress_callback, emails, groups, pc, raised, date, key, files,
      runVars, callVars, classifyVars, extractVars>>

\* The .mbox files a Takeout folder may hold.
MboxPaths == {"Inbox.mbox", "Sent.mbox"}

\* The folders the dialog of step 1 may give: each the files rglob finds.
TakeoutFolders == SUBSET MboxPaths

\* The folders the dialog of step 4 may give.
OutputFolders == {"Desktop", "Documents"}

\* selected = [p for p, v in self.mbox_files.items() if v.get()]
Selected == { p \in DOMAIN mbox_files : mbox_files[p] }

\* MboxToPdfApp.__init__
WizardInit ==
    /\ RunIdle
    /\ CallIdle
    /\ PipelineIdle
    /\ ClassifyIdle
    /\ ExtractIdle
    /\ raised = NoException
    /\ pc = "mainloop"
    /\ current_step = 1
    /\ takeout_folder = <<>>
    /\ mbox_files = <<>>
    /\ output_folder = <<>>
    /\ conversion_result = <<>>
    /\ main_frame = "step1"
    /\ next_button = "disabled"
    /\ threads = <<>>
    /\ after_queue = <<>>

\* show_step_1: the Next button is made disabled.
show_step_1 ==
    /\ current_step' = 1
    /\ main_frame' = "step1"
    /\ next_button' = "disabled"

show_step_2 ==
    /\ current_step' = 2
    /\ main_frame' = "step2"
    /\ next_button' = "normal"

show_step_3 ==
    /\ current_step' = 3
    /\ main_frame' = "step3"
    /\ next_button' = "normal"

\* show_step_4: Convert is enabled when an output folder is set.
show_step_4 ==
    /\ current_step' = 4
    /\ main_frame' = "step4"
    /\ next_button' = IF output_folder # <<>> THEN "normal" ELSE "disabled"

\* show_step_5: the screen has no button; the Next button is destroyed.
show_step_5 ==
    /\ current_step' = 5
    /\ main_frame' = "step5"
    /\ next_button' = "destroyed"

\* Step 1, Browse: browse_folder and scan_for_mbox_files.
BrowseFolder ==
    /\ main_frame = "step1"
    /\ \/ UNCHANGED <<takeout_folder, mbox_files, next_button>>
       \/ \E found \in TakeoutFolders :
             /\ takeout_folder' = <<found>>
             /\ IF found = {}
                THEN /\ next_button' = "disabled"
                     /\ UNCHANGED mbox_files
                ELSE /\ mbox_files' = [p \in found |-> TRUE]
                     /\ next_button' = "normal"
    /\ UNCHANGED <<current_step, output_folder, conversion_result, main_frame,
                   threads, after_queue, grouping_strategy>>
    /\ UNCHANGED wizardRest

\* Step 1, Next: go_to_step_2.
GoToStep2 ==
    /\ main_frame = "step1"
    /\ next_button = "normal"
    /\ IF DOMAIN mbox_files = {}
       THEN UNCHANGED <<current_step, main_frame, next_button>>
       ELSE show_step_2
    /\ UNCHANGED <<takeout_folder, mbox_files, output_folder, conversion_result,
                   threads, after_queue, grouping_strategy>>
    /\ UNCHANGED wizardRest

\* Step 2, a checkbox.
ToggleCheckbox ==
    /\ main_frame = "step2"
    /\ \E p \in DOMAIN mbox_files :
          mbox_files' = [mbox_files EXCEPT ![p] = ~@]
    /\ UNCHANGED <<current_step, takeout_folder, output_folder, conversion_result,
                   next_button, main_frame, threads, after_queue, grouping_strategy>>
    /\ UNCHANGED wizardRest

\* Step 2, Back: show_step_1.
BackToStep1 ==
    /\ main_frame = "step2"
    /\ show_step_1
    /\ UNCHANGED <<takeout_folder, mbox_files, output_folder, conversion_result,
                   threads, after_queue, grouping_strategy>>
    /\ UNCHANGED wizardRest

\* The handler goes on to step 3 whatever is selected.
GoToStep3Unchecked ==
    /\ main_frame = "step2"
    /\ next_button = "normal"
    /\ show_step_3
    /\ UNCHANGED <<takeout_folder, mbox_files, output_folder, conversion_result,
                   threads, after_queue, grouping_strategy>>
    /\ UNCHANGED wizardRest

\* Step 2, Next: go_to_step_3, with its warning when nothing is selected.
GoToStep3 ==
    /\ main_frame = "step2"
    /\ next_button = "normal"
    /\ IF Selected = {}
       THEN UNCHANGED <<current_step, main_frame, next_button>>
       ELSE show_step_3
    /\ UNCHANGED <<takeout_folder, mbox_files, output_folder, conversion_result,
                   threads, after_queue, grouping_strategy>>
    /\ UNCHANGED wizardRest

\* Step 3, a radio button.
SelectStrategy ==
    /\ main_frame = "step3"
    /\ grouping_strategy' \in ValidStrategies
    /\ UNCHANGED wizardVars
    /\ UNCHANGED wizardRest

\* Step 3, Back: show_step_2.
BackToStep2 ==
    /\ main_frame = "step3"
    /\ show_step_2
    /\ UNCHANGED <<takeout_folder, mbox_files, output_folder, conversion_result,
                   threads, after_queue, grouping_strategy>>
    /\ UNCHANGED wizardRest

\* Step 3, Next: show_step_4.
GoToStep4 ==
    /\ main_frame = "step3"
    /\ next_button = "normal"
    /\ show_step_4
    /\ UNCHANGED <<takeout_folder, mbox_files, output_folder, conversion_result,
                   threads, after_queue, grouping_strategy>>
    /\ UNCHANGED wizardRest

\* Step 4, Browse: browse_output_folder.
BrowseOutputFolder ==
    /\ main_frame = "step4"
    /\ \/ UNCHANGED <<output_folder, next_button>>
       \/ \E folder \in OutputFolders :
             /\ output_folder' = <<folder>>
             /\ next_button' = "normal"
    /\ UNCHANGED <<current_step, takeout_folder, mbox_files, conversion_result,
                   main_frame, threads, after_queue, grouping_strategy>>
    /\ UNCHANGED wizardRest

\* Step 4, Back: show_step_3.
BackToStep3 ==
    /\ main_frame = "step4"
    /\ show_step_3
    /\ UNCHANGED <<takeout_folder, mbox_files, output_folder, conversion_result,
                   threads, after_queue, grouping_strategy>>
    /\ UNCHANGED wizardRest

\* threading.Thread(target=self.run_conversion, daemon=True).start()
StartThread == threads' = Append(threads, [at |-> "started"])

\* The thread is started and the screen of step 4 stays.
StartConversionOnStep4 ==
    /\ main_frame = "step4"
    /\ next_button = "normal"
    /\ StartThread
    /\ UNCHANGED <<current_step, main_frame, next_button>>
    /\ UNCHANGED <<takeout_folder, mbox_files, output_folder, conversion_result,
                   after_queue, grouping_strategy>>
    /\ UNCHANGED wizardRest

\* Step 4, Convert: start_conversion, with its warning when no output
\* folder is set.
start_conversion ==
    /\ main_frame = "step4"
    /\ next_button = "normal"
    /\ IF output_folder = <<>>
       THEN UNCHANGED <<current_step, main_frame, next_button, threads>>
       ELSE /\ show_step_5
            /\ StartThread
    /\ UNCHANGED <<takeout_folder, mbox_files, output_folder, conversion_result,
                   after_queue, grouping_strategy>>
    /\ UNCHANGED wizardRest

\* threads without its i-th element.
Without(s, i) == SubSeq(s, 1, i - 1) \o SubSeq(s, i + 1, Len(s))

\* run_conversion, up to the first report of the conversion: update_progress
\* hands the update of the progress widgets to the main thread.
ReportProgress ==
    /\ \E i \in 1..Len(threads) :
          /\ threads[i].at = "started"
          /\ threads' = [threads EXCEPT ![i].at = "converting"]
    /\ after_queue' = Append(after_queue, [callback |-> "update", result |-> <<>>])
    /\ UNCHANGED <<current_step, takeout_folder, mbox_files, output_folder,
                   conversion_result, next_button, main_frame, grouping_strategy>>
    /\ UNCHANGED wizardRest

\* run_conversion, to its end: convert_mbox_to_pdfs returns a result, which
\* is kept and handed to show_completion, or raises, and the text of the
\* exception is handed to show_error.
RunConversion ==
    /\ \E i \in 1..Len(threads) :
          /\ threads[i].at = "converting"
          /\ threads' = Without(threads, i)
    /\ \/ \E success \in BOOLEAN :
             LET result_ == [success |-> success, selected_files |-> Selected,
                             output_dir |-> output_folder,
                             grouping_strategy |-> grouping_strategy]
             IN  /\ conversion_result' = <<result_>>
                 /\ after_queue' = Append(after_queue,
                        [callback |-> "show_completion", result |-> <<result_>>])
       \/ /\ UNCHANGED conversion_result
          /\ after_queue' = Append(after_queue,
                 [callback |-> "show_error", result |-> <<>>])
    /\ UNCHANGED <<current_step, takeout_folder, mbox_files, output_folder,
                   next_button, main_frame, grouping_strategy>>
    /\ UNCHANGED wizardRest

\* The main thread runs the update of the progress bar and the status text.
UpdateProgress ==
    /\ after_queue # <<>>
    /\ Head(after_queue).callback = "update"
    /\ main_frame = "step5"
    /\ after_queue' = Tail(after_queue)
    /\ UNCHANGED <<current_step, takeout_folder, mbox_files, output_folder,
                   conversion_result, next_button, main_frame, threads,
                   grouping_strategy>>
    /\ UNCHANGED wizardRest

\* The main thread runs show_completion(result): the screen with Convert
\* Another; current_step stays 5.
ShowCompletion ==
    /\ after_queue # <<>>
    /\ Head(after_queue).callback = "show_completion"
    /\ after_queue' = Tail(after_queue)
    /\ main_frame' = "completion"
    /\ UNCHANGED <<current_step, takeout_folder, mbox_files, output_folder,
                   conversion_result, next_button, threads, grouping_strategy>>
    /\ UNCHANGED wizardRest

\* The main thread runs show_error(message): the dialog, then show_step_4.
ShowError ==
    /\ after_queue # <<>>
    /\ Head(after_queue).callback = "show_error"
    /\ after_queue' = Tail(after_queue)
    /\ show_step_4
    /\ UNCHANGED <<takeout_folder, mbox_files, output_folder, conversion_result,
                   threads, grouping_strategy>>
    /\ UNCHANGED wizardRest

\* Convert Another: reset_wizard.
reset_wizard ==
    /\ main_frame = "completion"
    /\ takeout_folder' = <<>>
    /\ mbox_files' = <<>>
    /\ grouping_strategy' = "month"
    /\ output_folder' = <<>>
    /\ conversion_result' = <<>>
    /\ show_step_1
    /\ UNCHANGED <<threads, after_queue>>
    /\ UNCHANGED wizardRest

WizardNext ==
    \/ BrowseFolder
    \/ GoToStep2
    \/ ToggleCheckbox
    \/ BackToStep1
    \/ GoToStep3
    \/ SelectStrategy
    \/ BackToStep2
    \/ GoToStep4
    \/ BrowseOutputFolder
    \/ BackToStep3
    \/ start_conversion
    \/ ReportProgress
    \/ RunConversion
    \/ UpdateProgress
    \/ ShowCompletion
    \/ ShowError
    \/ reset_wizard

SpecWizard == WizardInit /\ [][WizardNext]_vars

(***************************************************************************)
(* C30                                                                     *)
(***************************************************************************)
\* A step of the wizard starts a background conversion.
ConversionStarted == Len(threads') > Len(threads)

\* C30: whatever the sequence of Browse, Next, Back, checkbox and Convert
\* Another actions, a conversion is started only from step 4, with an
\* output folder chosen and at least one mailbox file selected, and at most
\* one background conversion runs at any time: while one runs the screen of
\* step 5 is shown, the selection and the output folder it was started
\* with stay, and no action starts a second one.
C30_ConversionStartedOnceFromStep4 ==
    /\ [](/\ Len(threads) <= 1
          /\ threads # <<>> =>
                /\ current_step = 5
                /\ main_frame = "step5"
                /\ Selected # {}
                /\ output_folder # <<>>)
    /\ [][ConversionStarted =>
              /\ current_step = 4
              /\ main_frame = "step4"
              /\ output_folder # <<>>
              /\ Selected # {}
              /\ threads = <<>>]_vars

\* A conversion runs that was started after a checkbox was cleared and the
\* strategy changed.
C30_Witness ==
    /\ threads # <<>>
    /\ threads[1].at = "converting"
    /\ Cardinality(DOMAIN mbox_files) = 2
    /\ Cardinality(Selected) = 1
    /\ grouping_strategy = "quarter"

====
